---------------------------- MODULE Spec2Model ----------------------------
(***************************************************************************)
(* Model of the dirstream codec of Exepy: the encoder of                   *)
(* src/dirstream/dirEncoder.go, the header, chunk and manifest codecs, the *)
(* in-memory pipe between the producer goroutine and the consumer, and the *)
(* decoder.  Streams are sequences of bytes (0..255); 32-bit words are     *)
(* sequences of four bytes, most significant first, as on the wire.        *)
(***************************************************************************)
EXTENDS Integers, Sequences, FiniteSets, TLC

(***************************************************************************)
(* Bytes and big-endian integers (encoding/binary.BigEndian).              *)
(***************************************************************************)
Byte == 0..255

Zeros(n) == [i \in 1..n |-> 0]

Min(a, b) == IF a <= b THEN a ELSE b

\* s[from..] with Go's slice indexing turned into 1-based positions
Drop(s, n) == SubSeq(s, n + 1, Len(s))

Take(s, n) == SubSeq(s, 1, Min(n, Len(s)))

\* PutUint16: the low 16 bits of v (uint16(len(pathBytes)) truncates)
BE16(v) == << (v \div 256) % 256, v % 256 >>

\* PutUint32 of a value below 2^31
BE32(v) == << (v \div 16777216) % 256, (v \div 65536) % 256, (v \div 256) % 256, v % 256 >>

\* PutUint64 of a value in 0 .. 2^31-1 (the upper four bytes are zero)
BE64(v) == <<0, 0, 0, 0>> \o BE32(v)

\* PutUint64 of the two's complement image of an int64 in -2^31 .. 2^31-1
BE64Signed(v) ==
    IF v >= 0 THEN BE64(v)
    ELSE LET u == -(v + 1)
             b == BE32(u)
         IN <<255, 255, 255, 255>> \o [i \in 1..4 |-> 255 - b[i]]

\* Values too large for the model's integers are read as Huge
Huge == 127 * 16777216 + 16777215

\* Uint32 of four bytes
U32(b) == IF b[1] >= 128 THEN Huge
          ELSE ((b[1] * 256 + b[2]) * 256 + b[3]) * 256 + b[4]

\* Uint64 of eight bytes
U64(b) == IF b[1] # 0 \/ b[2] # 0 \/ b[3] # 0 \/ b[4] # 0 THEN Huge
          ELSE U32(SubSeq(b, 5, 8))

\* Uint64 of eight bytes reinterpreted as int64 (unsafe.Pointer cast)
I64(b) ==
    IF b[1] = 255 /\ b[2] = 255 /\ b[3] = 255 /\ b[4] = 255 /\ b[5] >= 128
    THEN -(U32([i \in 1..4 |-> 255 - b[4 + i]])) - 1
    ELSE U64(b)

U16(b) == b[1] * 256 + b[2]

(***************************************************************************)
(* hash/crc32.ChecksumIEEE: reflected polynomial 0xEDB88320, initial value *)
(* and final xor 0xFFFFFFFF, computed with the usual 256-entry table.      *)
(***************************************************************************)
XorBit(a, b, w) == (((a \div w) + (b \div w)) % 2) * w

XorNat(a, b) ==
    XorBit(a, b, 1) + XorBit(a, b, 2) + XorBit(a, b, 4) + XorBit(a, b, 8)
    + XorBit(a, b, 16) + XorBit(a, b, 32) + XorBit(a, b, 64) + XorBit(a, b, 128)

\* f @@ NoEntries is f, tabulated once instead of recomputed at every use
NoEntries == [i \in {} |-> 0]

XorTable == [a \in Byte |-> ([b \in Byte |-> XorNat(a, b)] @@ NoEntries)] @@ NoEntries

XorByte(a, b) == XorTable[a][b]

XorWord(x, y) ==
    << XorByte(x[1], y[1]), XorByte(x[2], y[2]), XorByte(x[3], y[3]), XorByte(x[4], y[4]) >>

crcPoly == <<237, 184, 131, 32>>

\* x >> 1 on a four-byte word
ShiftRight1(x) ==
    << x[1] \div 2,
       (x[2] \div 2) + 128 * (x[1] % 2),
       (x[3] \div 2) + 128 * (x[2] % 2),
       (x[4] \div 2) + 128 * (x[3] % 2) >>

\* x >> 8 on a four-byte word
ShiftRight8(x) == <<0, x[1], x[2], x[3]>>

\* one of the eight rounds that build a table entry
crcRound(x) == IF x[4] % 2 = 1 THEN XorWord(crcPoly, ShiftRight1(x)) ELSE ShiftRight1(x)

crcTableEntry(i) ==
    crcRound(crcRound(crcRound(crcRound(crcRound(crcRound(crcRound(crcRound(<<0, 0, 0, i>>))))))))

crcTable == [i \in Byte |-> crcTableEntry(i)] @@ NoEntries

\* crc32 update by one byte, as a function: its argument is evaluated once
crcUpdateByte ==
    [crc \in Byte \X Byte \X Byte \X Byte |->
        [b \in Byte |-> XorWord(crcTable[XorByte(crc[4], b)], ShiftRight8(crc))]]

\* the bytes data[lo..hi] folded into crc; the range is halved, and the crc of
\* the left half is a value before the right half starts, to keep the
\* evaluation shallow
RECURSIVE crcUpdate(_, _, _, _)
crcUpdate(crc, data, lo, hi) ==
    IF lo > hi THEN crc
    ELSE IF lo = hi THEN crcUpdateByte[crc][data[lo]]
    ELSE [left \in Byte \X Byte \X Byte \X Byte |->
             crcUpdate(left, data, (lo + hi) \div 2 + 1, hi)]
            [crcUpdate(crc, data, lo, (lo + hi) \div 2)]

\* the checksum of a byte string, as a function: its argument is evaluated once
crcOfBytes ==
    [data \in Seq(Byte) |->
        crcUpdate(<<255, 255, 255, 255>>, data, 1, Len(data))]

\* the final xor with 0xFFFFFFFF
crcFinal ==
    [crc \in Byte \X Byte \X Byte \X Byte |-> XorWord(crc, <<255, 255, 255, 255>>)]

ChecksumIEEE(data) == crcFinal[crcOfBytes[data]]

(***************************************************************************)
(* Constants of the wire format.                                           *)
(***************************************************************************)
headerSize == 512

chunkHeaderSize == 12

DefaultChunkSize == 4096

headerVersion == 1

manifestVersion == 1

\* 0x49525353
fileHeaderMagicNumber == <<73, 82, 83, 83>>

\* 0x9ABCDEFF
chunkMagicNumber == <<154, 188, 222, 255>>

\* 0x4D414E49
manifestMagicNumber == <<77, 65, 78, 73>>

fileTypeRegular == 0

fileTypeDirectory == 1

fileTypeSymlink == 2

\* sizes of the path and link target fields of a header
pathFieldSize == 256

targetFieldSize == 128

(***************************************************************************)
(* Results: a value or an error.  Errors are strings; NoErr is nil.        *)
(***************************************************************************)
NoErr == "nil"

\* bytes.IndexByte(data, 0): the 0-based index of the first NUL, or -1
IndexNul(data) ==
    IF \E i \in 1..Len(data) : data[i] = 0
    THEN (CHOOSE i \in 1..Len(data) : data[i] = 0 /\ \A j \in 1..(i - 1) : data[j] # 0) - 1
    ELSE -1

\* the bytes of a NUL-terminated field up to the first NUL
CString(data) ==
    LET z == IndexNul(data) IN IF z = -1 THEN data ELSE SubSeq(data, 1, z)

(***************************************************************************)
(* File-header codec.  A fileHeader is a record                            *)
(*   [Version, FilePath, FileSize, FileMode, ModTime, FileType, LinkTarget] *)
(* with FilePath and LinkTarget byte strings and FileMode a four-byte word. *)
(***************************************************************************)
\* a field of n bytes that starts with the bytes b, the rest zero
Field(b, n) == b \o Zeros(n - Len(b))

\* the first 508 bytes that writeHeader lays out in its zeroed buffer, before the CRC
headerFields(fh) ==
    fileHeaderMagicNumber
    \o BE32(fh.Version)
    \o Field(fh.FilePath, pathFieldSize)
    \o BE64(fh.FileSize)
    \o fh.FileMode
    \o BE64Signed(fh.ModTime)
    \o <<fh.FileType>>
    \o Field(IF fh.FileType = fileTypeSymlink THEN fh.LinkTarget ELSE <<>>, targetFieldSize)
    \o Zeros(headerSize - 4 - (8 + 256 + 8 + 4 + 8 + 1 + 128))

\* the block with the CRC of its first 508 bytes in its last four
withCRC == [h \in Seq(Byte) |-> h \o ChecksumIEEE(h)]

\* writeHeader: [err, bytes]; on error nothing is written
writeHeaderLax(fh) ==
    IF Len(fh.FilePath) > pathFieldSize
    THEN [err |-> "file path too long", bytes |-> <<>>]
    ELSE IF fh.FileType = fileTypeSymlink /\ Len(fh.LinkTarget) > targetFieldSize
    THEN [err |-> "symlink target too long", bytes |-> <<>>]
    ELSE [err |-> NoErr, bytes |-> withCRC[headerFields(fh)]]

writeHeader(fh) ==
    IF Len(fh.FilePath) >= pathFieldSize
    THEN [err |-> "file path too long", bytes |-> <<>>]
    ELSE IF fh.FileType = fileTypeSymlink /\ Len(fh.LinkTarget) >= targetFieldSize
    THEN [err |-> "symlink target too long", bytes |-> <<>>]
    ELSE [err |-> NoErr, bytes |-> withCRC[headerFields(fh)]]

NoHeader ==
    [Version |-> 0, FilePath |-> <<>>, FileSize |-> 0, FileMode |-> <<0, 0, 0, 0>>,
     ModTime |-> 0, FileType |-> 0, LinkTarget |-> <<>>]

\* the fields of a 512-byte block that passed the CRC and magic checks
parseHeader(hb) ==
    LET ft == hb[8 + 256 + 8 + 4 + 8 + 1]
    IN [Version |-> U32(SubSeq(hb, 5, 8)),
        FilePath |-> CString(SubSeq(hb, 9, 8 + 256)),
        FileSize |-> U64(SubSeq(hb, 8 + 256 + 1, 8 + 256 + 8)),
        FileMode |-> SubSeq(hb, 8 + 256 + 8 + 1, 8 + 256 + 8 + 4),
        ModTime |-> I64(SubSeq(hb, 8 + 256 + 8 + 4 + 1, 8 + 256 + 8 + 4 + 8)),
        FileType |-> ft,
        LinkTarget |-> IF ft = fileTypeSymlink
                       THEN CString(SubSeq(hb, 8 + 256 + 8 + 4 + 8 + 1 + 1,
                                           8 + 256 + 8 + 4 + 8 + 1 + 128))
                       ELSE <<>>]

\* readHeader on the bytes left in the stream: [err, fh, n] with n bytes consumed
\* (io.ReadFull: EOF when nothing is left, ErrUnexpectedEOF on a short block)
\* (and the same with the magic looked at before the CRC)
readHeaderMagicFirst(rest) ==
    IF Len(rest) = 0 THEN [err |-> "EOF", fh |-> NoHeader, n |-> 0]
    ELSE IF Len(rest) < headerSize
    THEN [err |-> "unexpected EOF", fh |-> NoHeader, n |-> Len(rest)]
    ELSE LET hb == SubSeq(rest, 1, headerSize)
         IN IF SubSeq(hb, 1, 4) # fileHeaderMagicNumber
            THEN [err |-> "invalid header magic number", fh |-> NoHeader, n |-> headerSize]
            ELSE IF SubSeq(hb, headerSize - 4 + 1, headerSize)
                      # ChecksumIEEE(SubSeq(hb, 1, headerSize - 4))
            THEN [err |-> "header CRC mismatch", fh |-> NoHeader, n |-> headerSize]
            ELSE [err |-> NoErr, fh |-> parseHeader(hb), n |-> headerSize]

readHeader(rest) ==
    IF Len(rest) = 0 THEN [err |-> "EOF", fh |-> NoHeader, n |-> 0]
    ELSE IF Len(rest) < headerSize
    THEN [err |-> "unexpected EOF", fh |-> NoHeader, n |-> Len(rest)]
    ELSE LET hb == SubSeq(rest, 1, headerSize)
         IN IF SubSeq(hb, headerSize - 4 + 1, headerSize)
                 # ChecksumIEEE(SubSeq(hb, 1, headerSize - 4))
            THEN [err |-> "header CRC mismatch", fh |-> NoHeader, n |-> headerSize]
            ELSE IF SubSeq(hb, 1, 4) # fileHeaderMagicNumber
            THEN [err |-> "invalid header magic number", fh |-> NoHeader, n |-> headerSize]
            ELSE [err |-> NoErr, fh |-> parseHeader(hb), n |-> headerSize]

(***************************************************************************)
(* Paths.  A path string is a sequence of bytes; a cleaned path is the     *)
(* sequence of its components (names), rooted at "/" or at the encode root. *)
(***************************************************************************)
Slash == <<47>>

Dot == <<46>>

DotDot == <<46, 46>>

\* strings.Split(p, "/")
RECURSIVE SplitPath(_)
SplitPath(p) ==
    IF \E i \in 1..Len(p) : p[i] = 47
    THEN LET k == CHOOSE i \in 1..Len(p) : p[i] = 47 /\ \A j \in 1..(i - 1) : p[j] # 47
         IN <<SubSeq(p, 1, k - 1)>> \o SplitPath(Drop(p, k))
    ELSE <<p>>

\* strings.Join(comps, "/")
RECURSIVE JoinPath(_)
JoinPath(comps) ==
    IF Len(comps) = 0 THEN <<>>
    ELSE IF Len(comps) = 1 THEN comps[1]
    ELSE comps[1] \o Slash \o JoinPath(Tail(comps))

Parent(path) == IF Len(path) = 0 THEN path ELSE SubSeq(path, 1, Len(path) - 1)

\* filepath.Clean of a rooted path given by its raw components: empty and "."
\* components vanish, ".." removes the component before it and vanishes at the root
RECURSIVE CleanRooted(_, _)
CleanRooted(done, raw) ==
    IF Len(raw) = 0 THEN done
    ELSE LET c == Head(raw)
         IN IF c = <<>> \/ c = Dot THEN CleanRooted(done, Tail(raw))
            ELSE IF c = DotDot THEN CleanRooted(Parent(done), Tail(raw))
            ELSE CleanRooted(done \o <<c>>, Tail(raw))

\* filepath.Join(dir, p) for an absolute, clean dir: Clean(dir + "/" + p)
JoinClean(dir, p) == CleanRooted(dir, SplitPath(p))

\* filepath.Rel(root, path) for a path the walk reached under root
Rel(relComps) == IF Len(relComps) = 0 THEN Dot ELSE JoinPath(relComps)

\* byte-wise string order (the order os.ReadDir sorts names in)
LessBytes(a, b) ==
    \/ Len(a) < Len(b) /\ SubSeq(b, 1, Len(a)) = a
    \/ \E i \in 1..Min(Len(a), Len(b)) :
          /\ a[i] < b[i]
          /\ SubSeq(a, 1, i - 1) = SubSeq(b, 1, i - 1)

\* the order in which filepath.WalkDir reaches two paths: a directory before
\* its entries, the entries of a directory in name order
WalkBefore(p, q) ==
    \/ Len(p) < Len(q) /\ SubSeq(q, 1, Len(p)) = p
    \/ \E i \in 1..Min(Len(p), Len(q)) :
          /\ LessBytes(p[i], q[i])
          /\ SubSeq(p, 1, i - 1) = SubSeq(q, 1, i - 1)

(***************************************************************************)
(* File systems.  A file system maps the path of every entry to its node   *)
(*   [type, mode, mtime, data, target]                                     *)
(* with mode the four bytes of Go's FileMode (type bits and permissions).   *)
(* The process is the unprivileged owner of every entry: only the owner's  *)
(* permission bits count.                                                  *)
(***************************************************************************)
\* os.ModeDir (1<<31), os.ModeSymlink (1<<27), os.ModeNamedPipe (1<<25) and the
\* nine permission bits, as the bytes of uint32(info.Mode())
ModeWord(type, perm) ==
    << (IF type = "dir" THEN 128 ELSE 0) + (IF type = "symlink" THEN 8 ELSE 0)
         + (IF type = "other" THEN 2 ELSE 0),
       0, perm \div 256, perm % 256 >>

\* FileMode.Perm()
Perm(mode) == (mode[3] % 2) * 256 + mode[4]

OwnerCanWrite(node) == (Perm(node.mode) \div 128) % 2 = 1

OwnerCanSearch(node) == (Perm(node.mode) \div 64) % 2 = 1

FileNode(perm, data, mtime) ==
    [type |-> "file", mode |-> ModeWord("file", perm), mtime |-> mtime,
     data |-> data, target |-> <<>>]

DirNode(perm, mtime) ==
    [type |-> "dir", mode |-> ModeWord("dir", perm), mtime |-> mtime,
     data |-> <<>>, target |-> <<>>]

SymlinkNode(target, mtime) ==
    [type |-> "symlink", mode |-> ModeWord("symlink", 511), mtime |-> mtime,
     data |-> <<>>, target |-> target]

OtherNode(perm, mtime) ==
    [type |-> "other", mode |-> ModeWord("other", perm), mtime |-> mtime,
     data |-> <<>>, target |-> <<>>]

Children(fs, dir) == {q \in DOMAIN fs : Len(q) = Len(dir) + 1 /\ Parent(q) = dir}

\* how deep the kernel follows symbolic links before ELOOP
MaxSymlinks == 40

\* Path resolution from directory cur along the raw components comps:
\* [err, path, exists], path being the resolved location (which need not exist
\* when only its last component is missing).  Symbolic links on the way are
\* followed; the last component is followed only when followLast.
RECURSIVE Resolve(_, _, _, _, _)
Resolve(fs, cur, comps, followLast, fuel) ==
    IF Len(comps) = 0 THEN [err |-> NoErr, path |-> cur, exists |-> TRUE]
    ELSE IF fs[cur].type # "dir" THEN [err |-> "ENOTDIR", path |-> cur, exists |-> FALSE]
    ELSE IF ~OwnerCanSearch(fs[cur]) THEN [err |-> "EACCES", path |-> cur, exists |-> FALSE]
    ELSE LET c == Head(comps)
             rest == Tail(comps)
             next == cur \o <<c>>
         IN IF c = <<>> \/ c = Dot THEN Resolve(fs, cur, rest, followLast, fuel)
            ELSE IF c = DotDot THEN Resolve(fs, Parent(cur), rest, followLast, fuel)
            ELSE IF next \notin DOMAIN fs
            THEN IF Len(rest) = 0 THEN [err |-> NoErr, path |-> next, exists |-> FALSE]
                 ELSE [err |-> "ENOENT", path |-> next, exists |-> FALSE]
            ELSE IF fs[next].type = "symlink" /\ (Len(rest) > 0 \/ followLast)
            THEN IF fuel = 0 \/ Len(fs[next].target) = 0
                 THEN [err |-> "ELOOP", path |-> next, exists |-> FALSE]
                 ELSE Resolve(fs, IF fs[next].target[1] = 47 THEN <<>> ELSE cur,
                              SplitPath(fs[next].target) \o rest, followLast, fuel - 1)
            ELSE Resolve(fs, next, rest, followLast, fuel)

\* os.Stat and os.Lstat of an absolute path
Stat(fs, path) == Resolve(fs, <<>>, path, TRUE, MaxSymlinks)

Lstat(fs, path) == Resolve(fs, <<>>, path, FALSE, MaxSymlinks)

CanModifyDir(fs, dir) == OwnerCanWrite(fs[dir]) /\ OwnerCanSearch(fs[dir])

\* os.Mkdir(path, perm): [err, fs]
Mkdir(fs, path, mode) ==
    LET r == Lstat(fs, path)
    IN IF r.err # NoErr THEN [err |-> r.err, fs |-> fs]
       ELSE IF r.exists THEN [err |-> "EEXIST", fs |-> fs]
       ELSE IF ~CanModifyDir(fs, Parent(r.path)) THEN [err |-> "EACCES", fs |-> fs]
       ELSE [err |-> NoErr, fs |-> (r.path :> DirNode(Perm(mode), 0)) @@ fs]

\* os.MkdirAll(path, perm): [err, fs]
RECURSIVE MkdirAll(_, _, _)
MkdirAll(fs, path, mode) ==
    LET st == Stat(fs, path)
    IN IF st.err = NoErr /\ st.exists
       THEN IF fs[st.path].type = "dir" THEN [err |-> NoErr, fs |-> fs]
            ELSE [err |-> "ENOTDIR", fs |-> fs]
       ELSE LET up == IF Len(path) > 1 THEN MkdirAll(fs, Parent(path), mode)
                      ELSE [err |-> NoErr, fs |-> fs]
            IN IF up.err # NoErr THEN up
               ELSE LET mk == Mkdir(up.fs, path, mode)
                        again == Lstat(up.fs, path)
                    IN IF mk.err = NoErr THEN mk
                       ELSE IF again.err = NoErr /\ again.exists
                               /\ up.fs[again.path].type = "dir"
                       THEN [err |-> NoErr, fs |-> up.fs]
                       ELSE mk

\* os.OpenFile(path, O_WRONLY|O_CREATE|O_TRUNC, perm): [err, fs, path], path
\* being the file the descriptor refers to
OpenFileAlone(fs, path, mode) ==
    LET r == Stat(fs, path)
    IN IF r.err # NoErr THEN [err |-> r.err, fs |-> fs, path |-> path]
       ELSE IF r.exists /\ fs[r.path].type = "dir"
       THEN [err |-> "EISDIR", fs |-> fs, path |-> path]
       ELSE [err |-> NoErr, path |-> r.path,
             fs |-> (r.path :> FileNode(Perm(mode), <<>>, 0))
                      @@ [q \in {d \in DOMAIN fs : fs[d].type = "dir"} |-> fs[q]]]

OpenFile(fs, path, mode) ==
    LET r == Stat(fs, path)
    IN IF r.err # NoErr THEN [err |-> r.err, fs |-> fs, path |-> path]
       ELSE IF r.exists
       THEN IF fs[r.path].type = "dir" THEN [err |-> "EISDIR", fs |-> fs, path |-> path]
            ELSE IF ~OwnerCanWrite(fs[r.path]) THEN [err |-> "EACCES", fs |-> fs, path |-> path]
            ELSE [err |-> NoErr, fs |-> [fs EXCEPT ![r.path].data = <<>>], path |-> r.path]
       ELSE IF ~CanModifyDir(fs, Parent(r.path)) THEN [err |-> "EACCES", fs |-> fs, path |-> path]
       ELSE [err |-> NoErr, fs |-> (r.path :> FileNode(Perm(mode), <<>>, 0)) @@ fs,
             path |-> r.path]

\* os.Symlink(target, path): [err, fs]
Symlink(fs, target, path) ==
    LET r == Lstat(fs, path)
    IN IF r.err # NoErr THEN [err |-> r.err, fs |-> fs]
       ELSE IF r.exists THEN [err |-> "EEXIST", fs |-> fs]
       ELSE IF Len(target) = 0 THEN [err |-> "ENOENT", fs |-> fs]
       ELSE IF ~CanModifyDir(fs, Parent(r.path)) THEN [err |-> "EACCES", fs |-> fs]
       ELSE [err |-> NoErr, fs |-> (r.path :> SymlinkNode(target, 0)) @@ fs]

\* os.Remove(path): unlink, or rmdir of an empty directory: [err, fs]
Remove(fs, path) ==
    LET r == Lstat(fs, path)
    IN IF r.err # NoErr THEN [err |-> r.err, fs |-> fs]
       ELSE IF ~r.exists THEN [err |-> "ENOENT", fs |-> fs]
       ELSE IF Len(r.path) = 0 THEN [err |-> "EBUSY", fs |-> fs]
       ELSE IF ~CanModifyDir(fs, Parent(r.path)) THEN [err |-> "EACCES", fs |-> fs]
       ELSE IF fs[r.path].type = "dir" /\ Children(fs, r.path) # {}
       THEN [err |-> "ENOTEMPTY", fs |-> fs]
       ELSE [err |-> NoErr, fs |-> [q \in (DOMAIN fs) \ {r.path} |-> fs[q]]]

(***************************************************************************)
(* Source trees.  The encode root holds at most MaxEntries of the entries  *)
(* below, a directory with everything that lies in it; a second family has *)
(* one file that does not fit the buffered writer.                         *)
(***************************************************************************)
MaxEntries == 2

\* the largest file.Read result the model tries besides the full buffer
ShortRead == 1

Repeat(b, n) == [i \in 1..n |-> b] \o <<>>

nameA == <<97, 46, 116, 120, 116>>

nameD == <<100>>

nameF == <<102>>

nameL == <<108>>

nameP == <<112>>

nameBig == <<98, 105, 103>>

\* "../target"
targetUp == <<46, 46, 47, 116, 97, 114, 103, 101, 116>>

Candidates ==
    { [path |-> <<nameA>>, node |-> FileNode(420, <<97, 98, 99>>, 1700000000)],
      [path |-> <<nameD>>, node |-> DirNode(493, 1700000000)],
      [path |-> <<nameD>>, node |-> DirNode(365, 1700000000)],
      [path |-> <<nameD, nameF>>, node |-> FileNode(292, <<104, 101, 108, 108, 111>>, -1)],
      [path |-> <<nameD, Repeat(120, pathFieldSize - 3)>>, node |-> FileNode(420, <<>>, 0)],
      [path |-> <<nameD, Repeat(120, pathFieldSize - 2)>>, node |-> FileNode(420, <<>>, 0)],
      [path |-> <<nameL>>, node |-> SymlinkNode(targetUp, 1700000000)],
      [path |-> <<nameL>>, node |-> SymlinkNode(Repeat(121, targetFieldSize - 1), 1700000000)],
      [path |-> <<nameL>>, node |-> SymlinkNode(Repeat(121, targetFieldSize), 1700000000)],
      [path |-> <<nameP>>, node |-> OtherNode(420, 1700000000)] }

TreeOf(E) ==
    [q \in {<<>>} \cup {e.path : e \in E} |->
        IF q = <<>> THEN DirNode(493, 1700000000)
        ELSE (CHOOSE e \in E : e.path = q).node]

SmallTrees ==
    { TreeOf(E) : E \in { E \in SUBSET Candidates :
                            /\ Cardinality(E) <= MaxEntries
                            /\ \A e, f \in E : e.path = f.path => e = f
                            /\ \A e \in E : Len(e.path) > 1 =>
                                  \E f \in E : f.path = Parent(e.path) } }

\* header, chunk header and data of this file exceed the 4096 bytes of bufio's buffer
BigTree ==
    TreeOf({ [path |-> <<nameBig>>,
              node |-> FileNode(420, Repeat(7, DefaultChunkSize - headerSize + 16), 0)] })

\* the chunk sizes handed to NewEncoder and NewDecoder (0 selects the default)
ChunkSizes == {0, 2}

Scenarios ==
    { [tree |-> t, chunk |-> c] : t \in SmallTrees, c \in ChunkSizes }
    \cup { [tree |-> BigTree, chunk |-> 0] }

\* the paths of a tree in the order filepath.WalkDir calls the callback
RECURSIVE WalkOrder(_)
WalkOrder(S) ==
    IF S = {} THEN <<>>
    ELSE LET first == CHOOSE q \in S : \A r \in S \ {q} : WalkBefore(q, r)
         IN <<first>> \o WalkOrder(S \ {first})

(***************************************************************************)
(* State.                                                                  *)
(***************************************************************************)
VARIABLES
    src,             \* the tree under the encode root, by relative path
    chunkSize,       \* Encoder.chunkSize
    pc,              \* where the producer goroutine stands
    ret,             \* where it resumes once the write it is blocked in returns
    todo,            \* the paths WalkDir has not yet passed to the callback
    fh,              \* the header of the entry at hand
    offset,          \* the header offset captured for it
    file,            \* the source file the callback holds open
    bw,              \* bufferedWriter: the bytes it holds
    bwErr,           \* bufferedWriter: its sticky error
    wq,              \* the byte slices still to pass to bufferedWriter.Write
    wcont,           \* where the producer goes on once wq is written
    count,           \* cw.Count
    manifestEntries, \* the in-memory manifest table
    walkErr,         \* the error filepath.WalkDir returned
    faults,          \* how many more I/O failures the environment may produce
    shorts,          \* how many more short reads the environment may produce
    pw,              \* pipe: what is left of the Write in progress
    pwKind,          \* pipe: who called that Write ("none" when there is none)
    pwSent,          \* pipe: how many bytes of it the reader has taken
    werr,            \* pipe: the error the write end was closed with
    rclosed,         \* pipe: the read end is closed
    received,        \* consumer: the bytes its reads returned
    cstate,          \* consumer: "reading", "closed", or what its last read returned
    written,         \* history: the bytes bufferedWriter.Write has accepted
    strictMode,      \* Decoder.strictMode
    dchunk,          \* Decoder.chunkSize
    din,             \* decoder: the stream it is given
    dpos,            \* decoder: how many bytes of it are consumed
    dpc,             \* decoder: where Decode stands
    dres,            \* decoder: what Decode returned
    dfs,             \* the file system the decoder writes to, by absolute path
    dfile,           \* decoder: the destination file it holds open
    dfh,             \* decoder: the header of the record at hand
    dtotal,          \* decoder: totalRead of the file at hand
    dfs0,            \* history: dfs as it was when Decode began the block at hand
    dround,          \* decoder: how many times Decode was called on the stream
    dfirst,          \* history: dfs as the first call of Decode left it
    fin,             \* a function of the package called by itself: the call
    fout             \* what that call returned

encVars == <<src, chunkSize, pc, ret, todo, fh, offset, file, bw, bwErr, wq, wcont,
             count, manifestEntries, walkErr, faults, shorts, written>>

pipeVars == <<pw, pwKind, pwSent, werr, rclosed>>

consVars == <<received, cstate>>

decVars == <<strictMode, dchunk, din, dpos, dpc, dres, dfs, dfile, dfh, dtotal, dfs0,
             dround, dfirst>>

funVars == <<fin, fout>>

vars == <<encVars, pipeVars, consVars, decVars, funVars>>

\* bufio.NewWriter and bufio.NewReader: the default buffer size
defaultBufSize == 4096

\* the buffer sizes the consumer reads the pipe with
SmallBuf == 300

ReadSizes == {SmallBuf, defaultBufSize}

MaxFaults == 1

MaxShortReads == 1

NoFile == [open |-> FALSE, path |-> <<>>, pos |-> 0]

ErrClosedPipe == "io: read/write on closed pipe"

\* the destination directory, an absolute path, and the file system around it
nameDest == <<100, 101, 115, 116>>

destPath == <<nameDest>>

FreshDest == (<<>> :> DirNode(493, 0)) @@ (destPath :> DirNode(493, 0))

\* NewEncoder, NewDecoder: a chunk size of 0 or less selects the default
NewChunkSize(c) == IF c <= 0 THEN DefaultChunkSize ELSE c

\* Decode has not returned
NoResult == [err |-> "none", cause |-> "none"]

DecoderIdle ==
    /\ strictMode = FALSE /\ dchunk = 0 /\ din = <<>> /\ dpos = 0 /\ dpc = "idle"
    /\ dres = NoResult /\ dfs = FreshDest /\ dfile = NoFile /\ dfh = NoHeader /\ dtotal = 0
    /\ dfs0 = FreshDest /\ dround = 0 /\ dfirst = FreshDest

\* no function of the package is called by itself
NoCall == [fn |-> "none"]

FunIdle == fin = NoCall /\ fout = NoCall

\* Encode up to the start of the goroutine: the pipe, the counting writer, the
\* buffered writer and the empty manifest table
Init ==
    /\ \E sc \in Scenarios :
          /\ src = sc.tree
          /\ chunkSize = NewChunkSize(sc.chunk)
          /\ todo = WalkOrder(DOMAIN sc.tree)
    /\ pc = "walk" /\ ret = "walk" /\ fh = NoHeader /\ offset = 0 /\ file = NoFile
    /\ bw = <<>> /\ bwErr = NoErr /\ wq = <<>> /\ wcont = "walk" /\ count = 0
    /\ manifestEntries = <<>> /\ walkErr = NoErr
    /\ faults = MaxFaults /\ shorts = MaxShortReads
    /\ pw = <<>> /\ pwKind = "none" /\ pwSent = 0 /\ werr = "none" /\ rclosed = FALSE
    /\ received = <<>> /\ cstate = "reading" /\ written = <<>>
    /\ DecoderIdle
    /\ FunIdle

(***************************************************************************)
(* The pipe (io.Pipe) and the buffered writer (bufio.Writer) over the      *)
(* counting writer.                                                        *)
(***************************************************************************)
\* p.done is closed
PipeDone == rclosed \/ werr # "none"

\* bufferedWriter.Flush(), the producer going on at next when it returns
StartFlush(next) ==
    IF bwErr = NoErr /\ Len(bw) > 0
    THEN /\ pw' = bw /\ pwKind' = "flush" /\ pwSent' = 0
         /\ pc' = "blocked" /\ ret' = next
    ELSE /\ pc' = next
         /\ UNCHANGED <<pw, pwKind, pwSent, ret>>

\* the callback returns err: its deferred file.Close() runs and WalkDir stops
ReturnErrFileOpen(e) ==
    /\ walkErr' = e
    /\ file' = file
    /\ pc' = "finalFlush"

ReturnErr(e) ==
    /\ walkErr' = e
    /\ file' = NoFile
    /\ pc' = "finalFlush"

\* CountingWriter.Write: cw.Count once the Write below it has returned n
CountingWriterCount(n) == count + n

\* PipeWriter.Write returns to the buffered writer, which returns to the producer:
\* all of the slice was read, or the pipe was closed under it
PipeWriteReturn ==
    /\ pc = "blocked"
    /\ Len(pw) = 0 \/ PipeDone
    /\ count' = CountingWriterCount(pwSent)
    /\ IF pwKind = "flush"
       THEN /\ bw' = Drop(bw, pwSent)
            /\ wq' = wq
       ELSE /\ bw' = bw
            /\ wq' = IF Len(pw) = 0 THEN Tail(wq) ELSE <<pw>> \o Tail(wq)
    /\ bwErr' = IF Len(pw) = 0 THEN bwErr ELSE ErrClosedPipe
    /\ pw' = <<>> /\ pwKind' = "none" /\ pwSent' = 0
    /\ pc' = ret
    /\ UNCHANGED <<src, chunkSize, ret, todo, fh, offset, file, wcont, manifestEntries,
                   walkErr, faults, shorts, written, werr, rclosed>>
    /\ UNCHANGED <<consVars, decVars, funVars>>

\* bufferedWriter.Write of the first slice of wq
BufWrite ==
    /\ pc = "write"
    /\ IF Len(wq) = 0
       THEN /\ pc' = wcont
            /\ UNCHANGED <<bw, wq, written, walkErr, file, pw, pwKind, pwSent, ret>>
       ELSE IF bwErr # NoErr
       THEN /\ ReturnErr(bwErr)
            /\ wq' = <<>>
            /\ UNCHANGED <<bw, written, pw, pwKind, pwSent, ret>>
       ELSE IF Len(wq[1]) <= defaultBufSize - Len(bw)
       THEN /\ bw' = bw \o wq[1]
            /\ written' = written \o wq[1]
            /\ wq' = Tail(wq)
            /\ pc' = "write"
            /\ UNCHANGED <<walkErr, file, pw, pwKind, pwSent, ret>>
       ELSE IF Len(bw) = 0
       THEN /\ pw' = wq[1] /\ pwKind' = "direct" /\ pwSent' = 0
            /\ written' = written \o wq[1]
            /\ pc' = "blocked" /\ ret' = "write"
            /\ UNCHANGED <<bw, wq, walkErr, file>>
       ELSE LET n == defaultBufSize - Len(bw)
            IN /\ bw' = bw \o Take(wq[1], n)
               /\ written' = written \o Take(wq[1], n)
               /\ wq' = <<Drop(wq[1], n)>> \o Tail(wq)
               /\ pw' = bw' /\ pwKind' = "flush" /\ pwSent' = 0
               /\ pc' = "blocked" /\ ret' = "write"
               /\ UNCHANGED <<walkErr, file>>
    /\ UNCHANGED <<src, chunkSize, todo, fh, offset, bwErr, wcont, count, manifestEntries,
                   faults, shorts, werr, rclosed>>
    /\ UNCHANGED <<consVars, decVars, funVars>>

(***************************************************************************)
(* The producer goroutine of Encoder.Encode.                               *)
(***************************************************************************)
\* what the environment may do to the system calls of the callback's first part
EntryFaults(node) ==
    IF faults = 0 THEN {"none"}
    ELSE IF node.type = "symlink" THEN {"none", "stat failed", "readlink failed"}
    ELSE {"none", "stat failed"}

\* the header the callback prepares for the entry at relative path q
HeaderOf(q, node) ==
    [Version |-> headerVersion,
     FilePath |-> Rel(q),
     FileSize |-> IF node.type = "file" THEN Len(node.data) ELSE 0,
     FileMode |-> node.mode,
     ModTime |-> node.mtime,
     FileType |-> IF node.type = "dir" THEN fileTypeDirectory
                  ELSE IF node.type = "symlink" THEN fileTypeSymlink
                  ELSE fileTypeRegular,
     LinkTarget |-> IF node.type = "symlink" THEN node.target ELSE <<>>]

\* the Flush before the header, which brings cw.Count up to date
NoFlushBeforeHeader ==
    /\ pc' = "header"
    /\ UNCHANGED <<pw, pwKind, pwSent, ret>>

FlushBeforeHeader == StartFlush("header")

\* the WalkDir callback from its start to the Flush before the header
WalkEntry ==
    /\ pc = "walk"
    /\ Len(todo) > 0
    /\ \E f \in EntryFaults(src[Head(todo)]) :
          IF f # "none"
          THEN /\ ReturnErr(f)
               /\ faults' = faults - 1
               /\ UNCHANGED <<todo, fh, pw, pwKind, pwSent, ret>>
          ELSE IF src[Head(todo)].type = "other"
          THEN /\ todo' = Tail(todo)
               /\ UNCHANGED <<pc, fh, walkErr, file, faults, pw, pwKind, pwSent, ret>>
          ELSE /\ fh' = HeaderOf(Head(todo), src[Head(todo)])
               /\ FlushBeforeHeader
               /\ UNCHANGED <<todo, walkErr, file, faults>>
    /\ UNCHANGED <<src, chunkSize, offset, bw, bwErr, wq, wcont, count, manifestEntries,
                   shorts, written, werr, rclosed>>
    /\ UNCHANGED <<consVars, decVars, funVars>>

\* after that Flush: the offset is captured and the header written
WriteHeader ==
    /\ pc = "header"
    /\ IF bwErr # NoErr
       THEN /\ ReturnErr(bwErr)
            /\ UNCHANGED <<offset, wq, wcont>>
       ELSE \E h \in {writeHeader(fh)} :
               IF h.err # NoErr
               THEN /\ ReturnErr(h.err)
                    /\ UNCHANGED <<offset, wq, wcont>>
               ELSE /\ offset' = count
                    /\ wq' = <<h.bytes>>
                    /\ wcont' = "afterHeader"
                    /\ pc' = "write"
                    /\ UNCHANGED <<walkErr, file>>
    /\ UNCHANGED <<src, chunkSize, ret, todo, fh, bw, bwErr, count, manifestEntries,
                   faults, shorts, written>>
    /\ UNCHANGED <<pipeVars, consVars, decVars, funVars>>

\* what the environment may do once the header is out: os.Open of a regular file
\* may fail, and so may the ReadDir of a directory, which WalkDir reports to the
\* callback in a second call
AfterHeaderFaults ==
    IF faults = 0 \/ fh.FileType = fileTypeSymlink THEN {"none"}
    ELSE IF fh.FileType = fileTypeRegular THEN {"none", "open failed"}
    ELSE {"none", "readdir failed"}

\* the manifest entry is appended; a regular file is opened
AfterHeader ==
    /\ pc = "afterHeader"
    /\ manifestEntries' = Append(manifestEntries,
                                 [HeaderOffset |-> offset, FileSize |-> fh.FileSize,
                                  FileType |-> fh.FileType, FilePath |-> fh.FilePath])
    /\ \E f \in AfterHeaderFaults :
          IF f # "none"
          THEN /\ ReturnErr(f)
               /\ faults' = faults - 1
               /\ todo' = todo
          ELSE IF fh.FileType = fileTypeRegular
          THEN /\ file' = [open |-> TRUE, path |-> Head(todo), pos |-> 0]
               /\ pc' = "read"
               /\ UNCHANGED <<todo, walkErr, faults>>
          ELSE /\ todo' = Tail(todo)
               /\ pc' = "walk"
               /\ UNCHANGED <<file, walkErr, faults>>
    /\ UNCHANGED <<src, chunkSize, ret, fh, offset, bw, bwErr, wq, wcont, count,
                   shorts, written>>
    /\ UNCHANGED <<pipeVars, consVars, decVars, funVars>>

\* the sizes file.Read(buf) may return with left bytes left in the file
ReadResults(left) ==
    {Min(chunkSize, left)}
    \cup (IF shorts > 0 /\ ShortRead < Min(chunkSize, left) THEN {ShortRead} ELSE {})

ReadFaults == IF faults = 0 THEN {"none"} ELSE {"none", "read failed"}

\* one turn of the read loop: a chunk header and the bytes read, or the end
ReadChunk ==
    /\ pc = "read"
    /\ LET data == src[file.path].data
           left == Len(data) - file.pos
       IN \E f \in ReadFaults :
             IF f # "none"
             THEN /\ ReturnErr(f)
                  /\ faults' = faults - 1
                  /\ UNCHANGED <<todo, wq, wcont, shorts>>
             ELSE IF left = 0
             THEN /\ file' = NoFile
                  /\ todo' = Tail(todo)
                  /\ pc' = "walk"
                  /\ UNCHANGED <<walkErr, faults, wq, wcont, shorts>>
             ELSE \E n \in ReadResults(left) :
                     /\ wq' = << chunkMagicNumber \o BE64(n),
                                 SubSeq(data, file.pos + 1, file.pos + n) >>
                     /\ wcont' = "read"
                     /\ file' = [file EXCEPT !.pos = file.pos + n]
                     /\ shorts' = IF n < Min(chunkSize, left) THEN shorts - 1 ELSE shorts
                     /\ pc' = "write"
                     /\ UNCHANGED <<todo, walkErr, faults>>
    /\ UNCHANGED <<src, chunkSize, ret, fh, offset, bw, bwErr, count, manifestEntries,
                   written>>
    /\ UNCHANGED <<pipeVars, consVars, decVars, funVars>>

\* WalkDir has called the callback for every path and returns nil
WalkDone ==
    /\ pc = "walk"
    /\ Len(todo) = 0
    /\ pc' = "finalFlush"
    /\ UNCHANGED <<src, chunkSize, ret, todo, fh, offset, file, bw, bwErr, wq, wcont,
                   count, manifestEntries, walkErr, faults, shorts, written>>
    /\ UNCHANGED <<pipeVars, consVars, decVars, funVars>>

\* bufferedWriter.Flush() after the walk; the manifest is not written
FinalFlush ==
    /\ pc = "finalFlush"
    /\ StartFlush("close")
    /\ UNCHANGED <<src, chunkSize, todo, fh, offset, file, bw, bwErr, wq, wcont,
                   count, manifestEntries, walkErr, faults, shorts, written, werr, rclosed>>
    /\ UNCHANGED <<consVars, decVars, funVars>>

\* PipeWriter.CloseWithError(err) and PipeWriter.Close(): the first error stays
CloseWriteLast(e) == e

CloseWrite(e) == IF werr = "none" THEN e ELSE werr

\* w.CloseWithError(err) if the walk failed, then the deferred Flush
CloseWithError ==
    /\ pc = "close"
    /\ werr' = IF walkErr # NoErr THEN CloseWrite(walkErr) ELSE werr
    /\ StartFlush("deferClose")
    /\ UNCHANGED <<src, chunkSize, todo, fh, offset, file, bw, bwErr, wq, wcont,
                   count, manifestEntries, walkErr, faults, shorts, written, rclosed>>
    /\ UNCHANGED <<consVars, decVars, funVars>>

\* the deferred w.Close(); the goroutine ends (and the same with the write end
\* left open)
DeferCloseLeavesOpen ==
    /\ pc = "deferClose"
    /\ werr' = werr
    /\ pc' = "done"
    /\ UNCHANGED <<src, chunkSize, ret, todo, fh, offset, file, bw, bwErr, wq, wcont,
                   count, manifestEntries, walkErr, faults, shorts, written>>
    /\ UNCHANGED <<pw, pwKind, pwSent, rclosed>>
    /\ UNCHANGED <<consVars, decVars, funVars>>

DeferClose ==
    /\ pc = "deferClose"
    /\ werr' = CloseWrite("EOF")
    /\ pc' = "done"
    /\ UNCHANGED <<src, chunkSize, ret, todo, fh, offset, file, bw, bwErr, wq, wcont,
                   count, manifestEntries, walkErr, faults, shorts, written>>
    /\ UNCHANGED <<pw, pwKind, pwSent, rclosed>>
    /\ UNCHANGED <<consVars, decVars, funVars>>

(***************************************************************************)
(* The consumer of the stream Encode returned.                             *)
(***************************************************************************)
\* PipeReader.Read into a buffer of k bytes while a Write is offered
ConsumerReadLossy ==
    /\ cstate = "reading"
    /\ pc = "blocked"
    /\ Len(pw) > 0
    /\ ~PipeDone
    /\ \E k \in ReadSizes :
          /\ k = SmallBuf \/ Len(pw) > SmallBuf
          /\ received' = received \o Take(pw, k)
          /\ pw' = <<>>
          /\ pwSent' = pwSent + Len(pw)
    /\ UNCHANGED <<encVars, pwKind, werr, rclosed, cstate, decVars, funVars>>

ConsumerRead ==
    /\ cstate = "reading"
    /\ pc = "blocked"
    /\ Len(pw) > 0
    /\ ~PipeDone
    /\ \E k \in ReadSizes :
          /\ k = SmallBuf \/ Len(pw) > SmallBuf
          /\ received' = received \o Take(pw, k)
          /\ pw' = Drop(pw, k)
          /\ pwSent' = pwSent + Min(k, Len(pw))
    /\ UNCHANGED <<encVars, pwKind, werr, rclosed, cstate, decVars, funVars>>

\* PipeReader.Read once the write end is closed: the error it was closed with
ConsumerEnd ==
    /\ cstate = "reading"
    /\ werr # "none"
    /\ cstate' = werr
    /\ UNCHANGED <<encVars, pipeVars, received, decVars, funVars>>

\* the consumer closes the read end
ConsumerClose ==
    /\ cstate = "reading"
    /\ werr = "none"
    /\ rclosed' = TRUE
    /\ cstate' = "closed"
    /\ UNCHANGED <<encVars, pw, pwKind, pwSent, werr, received, decVars, funVars>>

(***************************************************************************)
(* The manifest with a CRC.  A ManifestEntry is a record                   *)
(*   [HeaderOffset, FileSize, FileType, FilePath].                         *)
(***************************************************************************)
\* the bytes of the entries, one after the other
RECURSIVE manifestEntryBytes(_)
manifestEntryBytes(entries) ==
    IF Len(entries) = 0 THEN <<>>
    ELSE LET e == Head(entries)
         IN BE64(e.HeaderOffset) \o BE64(e.FileSize) \o <<e.FileType>>
              \o BE16(Len(e.FilePath) % 65536) \o e.FilePath
              \o manifestEntryBytes(Tail(entries))

\* writeManifest: the buffer it hands to w.Write (and the same with a CRC that
\* leaves the 16 header bytes out)
writeManifestCRCOfEntries(entries) ==
    LET body == manifestMagicNumber \o BE32(manifestVersion) \o BE64(Len(entries))
                  \o manifestEntryBytes(entries) \o manifestMagicNumber
    IN body \o ChecksumIEEE(Drop(body, 16))

writeManifest(entries) ==
    LET body == manifestMagicNumber \o BE32(manifestVersion) \o BE64(Len(entries))
                  \o manifestEntryBytes(entries) \o manifestMagicNumber
    IN body \o ChecksumIEEE(body)

\* the entry loop of readManifest over buf from 0-based offset on, left entries to go
RECURSIVE parseManifestEntries(_, _, _, _)
parseManifestEntries(buf, offset0, left, acc) ==
    IF left = 0 THEN [err |-> NoErr, entries |-> acc, offset |-> offset0]
    ELSE IF offset0 + 19 > Len(buf) - 4
    THEN [err |-> "manifest entry incomplete", entries |-> <<>>, offset |-> offset0]
    ELSE LET pathLen == U16(SubSeq(buf, offset0 + 18, offset0 + 19))
         IN IF offset0 + 19 + pathLen > Len(buf) - 4
            THEN [err |-> "manifest entry file path incomplete", entries |-> <<>>,
                  offset |-> offset0]
            ELSE parseManifestEntries(buf, offset0 + 19 + pathLen, left - 1,
                    Append(acc, [HeaderOffset |-> U64(SubSeq(buf, offset0 + 1, offset0 + 8)),
                                 FileSize |-> U64(SubSeq(buf, offset0 + 9, offset0 + 16)),
                                 FileType |-> buf[offset0 + 17],
                                 FilePath |-> SubSeq(buf, offset0 + 20, offset0 + 19 + pathLen)]))

\* readManifest of manifest.go on buf, all that is left of the stream: [err, entries]
readManifestCRC(buf) ==
    IF Len(buf) < 24 THEN [err |-> "manifest too short", entries |-> <<>>]
    ELSE IF SubSeq(buf, Len(buf) - 3, Len(buf)) # ChecksumIEEE(SubSeq(buf, 1, Len(buf) - 4))
    THEN [err |-> "manifest CRC mismatch", entries |-> <<>>]
    ELSE IF SubSeq(buf, 1, 4) # manifestMagicNumber
    THEN [err |-> "invalid manifest magic", entries |-> <<>>]
    ELSE IF U32(SubSeq(buf, 5, 8)) # manifestVersion
    THEN [err |-> "unsupported manifest version", entries |-> <<>>]
    ELSE LET es == parseManifestEntries(buf, 16, U64(SubSeq(buf, 9, 16)), <<>>)
         IN IF es.err # NoErr THEN [err |-> es.err, entries |-> <<>>]
            ELSE IF es.offset + 4 > Len(buf) - 4
            THEN [err |-> "manifest trailer missing", entries |-> <<>>]
            ELSE IF SubSeq(buf, es.offset + 1, es.offset + 4) # manifestMagicNumber
            THEN [err |-> "invalid manifest trailer", entries |-> <<>>]
            ELSE IF es.offset + 4 # Len(buf) - 4
            THEN [err |-> "unexpected extra data in manifest", entries |-> <<>>]
            ELSE [err |-> NoErr, entries |-> es.entries]

(***************************************************************************)
(* The Decoder.                                                            *)
(***************************************************************************)
\* the entries of a manifest from (1-based) position at: how the bytes end
\* ("ok" with the position after the last entry, or the failing read)
RECURSIVE readManifestEntries(_, _, _)
readManifestEntries(data, at, left) ==
    IF left = 0 THEN [err |-> NoErr, at |-> at]
    ELSE IF Len(data) - at + 1 < 19
    THEN [err |-> "error reading manifest entry header", at |-> Len(data) + 1]
    ELSE LET pathLength == U16(SubSeq(data, at + 17, at + 18))
         IN IF Len(data) - (at + 19) + 1 < pathLength
            THEN [err |-> "error reading file path", at |-> Len(data) + 1]
            ELSE readManifestEntries(data, at + 19 + pathLength, left - 1)

\* readManifest on the bytes left in the stream: [err, n] with n bytes consumed
readManifest(rest) ==
    IF Len(rest) < 16
    THEN [err |-> "error reading manifest header", n |-> Len(rest)]
    ELSE IF SubSeq(rest, 1, 4) # manifestMagicNumber
    THEN [err |-> "invalid manifest magic", n |-> 16]
    ELSE IF U32(SubSeq(rest, 5, 8)) # manifestVersion
    THEN [err |-> "unsupported manifest version", n |-> 16]
    ELSE LET es == readManifestEntries(rest, 17, U64(SubSeq(rest, 9, 16)))
         IN IF es.err # NoErr THEN [err |-> es.err, n |-> Len(rest)]
            ELSE IF Len(rest) - es.at + 1 < 4
            THEN [err |-> "error reading manifest trailer", n |-> Len(rest)]
            ELSE IF SubSeq(rest, es.at, es.at + 3) # manifestMagicNumber
            THEN [err |-> "invalid manifest trailer", n |-> es.at + 3]
            ELSE [err |-> NoErr, n |-> es.at + 3]

\* Decode returns, the destination file closed (and the same with the file
\* left open)
DecodeReturnFileOpen(e, cause) ==
    /\ dres' = [err |-> e, cause |-> cause]
    /\ dfile' = dfile
    /\ dpc' = "done"

DecodeReturn(e, cause) ==
    /\ dres' = [err |-> e, cause |-> cause]
    /\ dfile' = NoFile
    /\ dpc' = "done"

\* the mode of the directories Decode makes for the parents of an entry
parentDirMode == ModeWord("dir", 493)

\* what Decode does with a header it has read
DecodeEntry(h) ==
    \E fullPath \in {JoinClean(destPath, h.FilePath)} :
    \E up \in {MkdirAll(dfs, Parent(fullPath), parentDirMode)} :
       IF up.err # NoErr
       THEN /\ DecodeReturn("Decode: error creating directory", up.err)
            /\ dfs' = up.fs
            /\ UNCHANGED dtotal
       ELSE IF h.FileType = fileTypeDirectory
       THEN \E mk \in {MkdirAll(up.fs, fullPath, h.FileMode)} :
               /\ dfs' = mk.fs
               /\ UNCHANGED dtotal
               /\ IF mk.err # NoErr
                  THEN DecodeReturn("Decode: error creating directory", mk.err)
                  ELSE UNCHANGED <<dres, dfile, dpc>>
       ELSE IF h.FileType = fileTypeSymlink
       THEN \E sl \in {Symlink(Remove(up.fs, fullPath).fs, h.LinkTarget, fullPath)} :
               /\ dfs' = sl.fs
               /\ UNCHANGED dtotal
               /\ IF sl.err # NoErr
                  THEN DecodeReturn("Decode: error creating symlink", sl.err)
                  ELSE UNCHANGED <<dres, dfile, dpc>>
       ELSE IF h.FileType = fileTypeRegular
       THEN \E o \in {OpenFile(up.fs, fullPath, h.FileMode)} :
               /\ dfs' = o.fs
               /\ dtotal' = 0
               /\ IF o.err # NoErr
                  THEN DecodeReturn("Decode: error opening file", o.err)
                  ELSE /\ dfile' = [open |-> TRUE, path |-> o.path, pos |-> 0]
                       /\ dpc' = "chunk"
                       /\ UNCHANGED dres
       ELSE /\ DecodeReturn("Decode: unknown file type", NoErr)
            /\ dfs' = up.fs
            /\ UNCHANGED dtotal

\* one turn of Decode's outer loop, up to the chunks of a regular file
DecodeRecord ==
    /\ dpc = "record"
    /\ \E rest \in {Drop(din, dpos)} :
          IF Len(rest) < 4
          THEN /\ DecodeReturn(NoErr, NoErr)
               /\ UNCHANGED <<dpos, dfs, dfh, dtotal>>
          ELSE IF SubSeq(rest, 1, 4) = manifestMagicNumber
          THEN \E m \in {readManifest(rest)} :
                  /\ dpos' = dpos + m.n
                  /\ IF m.err # NoErr
                     THEN DecodeReturn("Decode: error reading manifest", m.err)
                     ELSE DecodeReturn(NoErr, NoErr)
                  /\ UNCHANGED <<dfs, dfh, dtotal>>
          ELSE \E h \in {readHeader(rest)} :
                  /\ dpos' = dpos + h.n
                  /\ dfh' = h.fh
                  /\ IF h.err # NoErr
                     THEN /\ DecodeReturn("Decode: error reading header", h.err)
                          /\ UNCHANGED <<dfs, dtotal>>
                     ELSE DecodeEntry(h.fh)
    /\ dfs0' = dfs
    /\ UNCHANGED <<strictMode, dchunk, din, dround, dfirst>>
    /\ UNCHANGED <<encVars, pipeVars, consVars, funVars>>

\* the length field of a chunk header exceeds the decoder's ceiling
ChunkTooLongAtCeiling(chunkLength) == chunkLength >= dchunk

ChunkTooLong(chunkLength) == chunkLength > dchunk

\* one turn of the chunk loop of a regular file, or its end
DecodeChunk ==
    /\ dpc = "chunk"
    /\ LET rest == Drop(din, dpos)
           chunkLength == U64(SubSeq(rest, 5, 12))
       IN IF dtotal >= dfh.FileSize
          THEN /\ dfile' = NoFile
               /\ dpc' = "record"
               /\ UNCHANGED <<dpos, dres, dfs, dtotal>>
          ELSE IF Len(rest) < chunkHeaderSize
          THEN /\ DecodeReturn("Decode: error reading chunk header",
                               IF Len(rest) = 0 THEN "EOF" ELSE "unexpected EOF")
               /\ dpos' = Len(din)
               /\ UNCHANGED <<dfs, dtotal>>
          ELSE IF SubSeq(rest, 1, 4) # chunkMagicNumber
          THEN /\ DecodeReturn("Decode: invalid chunk header magic", NoErr)
               /\ dpos' = dpos + chunkHeaderSize
               /\ UNCHANGED <<dfs, dtotal>>
          ELSE IF ChunkTooLong(chunkLength)
          THEN /\ DecodeReturn("Decode: invalid chunk length", NoErr)
               /\ dpos' = dpos + chunkHeaderSize
               /\ UNCHANGED <<dfs, dtotal>>
          ELSE IF Len(rest) - chunkHeaderSize < chunkLength
          THEN /\ DecodeReturn("Decode: error reading chunk data",
                               IF Len(rest) = chunkHeaderSize THEN "EOF" ELSE "unexpected EOF")
               /\ dpos' = Len(din)
               /\ UNCHANGED <<dfs, dtotal>>
          ELSE /\ dfs' = [dfs EXCEPT ![dfile.path].data =
                             @ \o SubSeq(rest, chunkHeaderSize + 1, chunkHeaderSize + chunkLength)]
               /\ dtotal' = dtotal + chunkLength
               /\ dpos' = dpos + chunkHeaderSize + chunkLength
               /\ UNCHANGED <<dres, dfile, dpc>>
    /\ UNCHANGED <<strictMode, dchunk, din, dfh, dfs0, dround, dfirst>>
    /\ UNCHANGED <<encVars, pipeVars, consVars, funVars>>

\* NewDecoder(destPath, strict, c).Decode(r) on the stream the consumer read to
\* its end into a fresh destination
DecodeStart ==
    /\ dpc = "idle"
    /\ cstate = "EOF"
    /\ \E st \in BOOLEAN, c \in ChunkSizes :
          /\ strictMode' = st
          /\ dchunk' = NewChunkSize(c)
    /\ din' = received
    /\ dpc' = "record"
    /\ dround' = 1
    /\ UNCHANGED <<dpos, dres, dfs, dfile, dfh, dtotal, dfs0, dfirst>>
    /\ UNCHANGED <<encVars, pipeVars, consVars, funVars>>

\* Decode called once more on the same stream, with the same Decoder, after it
\* returned without error: into the destination as the first call left it
DecodeAgain ==
    /\ dpc = "done"
    /\ dround = 1
    /\ dres.err = NoErr
    /\ dround' = 2
    /\ dfirst' = dfs
    /\ dpos' = 0 /\ dpc' = "record" /\ dres' = NoResult /\ dfh' = NoHeader /\ dtotal' = 0
    /\ dfs0' = dfs
    /\ UNCHANGED <<strictMode, dchunk, din, dfs, dfile>>
    /\ UNCHANGED <<encVars, pipeVars, consVars, funVars>>

Decoder == DecodeStart \/ DecodeRecord \/ DecodeChunk \/ DecodeAgain

Producer ==
    \/ WalkEntry \/ WriteHeader \/ AfterHeader \/ ReadChunk \/ BufWrite
    \/ PipeWriteReturn \/ WalkDone \/ FinalFlush \/ CloseWithError \/ DeferClose

Consumer == ConsumerRead \/ ConsumerEnd \/ ConsumerClose

Next == Producer \/ Consumer \/ Decoder

Spec == Init /\ [][Next]_vars

\* the goroutine of the producer is scheduled as long as it can take a step
FairSpec == Spec /\ WF_vars(Producer)

\* the consumer's goroutine is scheduled as well: a Read it can make is made
FairReadSpec == Spec /\ WF_vars(Producer) /\ WF_vars(ConsumerRead \/ ConsumerEnd)

\* another process appends a byte to the regular file at hand, or cuts its last
\* byte off, after the callback has stat'ed it (d.Info) and before it opens it
SourceChanges ==
    /\ pc \in {"header", "write", "blocked", "afterHeader"}
    /\ file = NoFile
    /\ Len(todo) > 0
    /\ fh.FileType = fileTypeRegular
    /\ fh.FilePath = Rel(Head(todo))
    /\ src[Head(todo)].type = "file"
    /\ Len(src[Head(todo)].data) = fh.FileSize
    /\ \E data \in {src[Head(todo)].data \o <<33>>}
                    \cup {Take(src[Head(todo)].data, fh.FileSize - 1) : z \in {0} \ {fh.FileSize}} :
          src' = [src EXCEPT ![Head(todo)].data = data]
    /\ UNCHANGED <<chunkSize, pc, ret, todo, fh, offset, file, bw, bwErr, wq, wcont,
                   count, manifestEntries, walkErr, faults, shorts, written>>
    /\ UNCHANGED <<pipeVars, consVars, decVars, funVars>>

NextChanging == Next \/ SourceChanges

\* Encode while the files of the source change under it
SpecChanging == Init /\ [][NextChanging]_vars


(***************************************************************************)
(* Decoding streams that no Encoder wrote.  A stream is one or two blocks  *)
(* out of CraftedBlocks; the decoder process runs no encoder.              *)
(***************************************************************************)
\* a header with a valid CRC, as writeHeader lays it out
CraftedHeader(path, type, size, target) ==
    writeHeader([Version |-> headerVersion, FilePath |-> path, FileSize |-> size,
                 FileMode |-> IF type = fileTypeDirectory THEN ModeWord("dir", 493)
                              ELSE IF type = fileTypeSymlink THEN ModeWord("symlink", 511)
                              ELSE ModeWord("file", 420),
                 ModTime |-> 0, FileType |-> type, LinkTarget |-> target]).bytes

\* the header of a directory with a version of choice and a valid CRC
CraftedVersionHeader(version, path) ==
    writeHeader([Version |-> version, FilePath |-> path, FileSize |-> 0,
                 FileMode |-> ModeWord("dir", 493), ModTime |-> 0,
                 FileType |-> fileTypeDirectory, LinkTarget |-> <<>>]).bytes

\* a chunk as the encoder's read loop lays it out
CraftedChunk(data) == chunkMagicNumber \o BE64(Len(data)) \o data

\* a manifest without entries, as writeManifest lays it out
EmptyManifest ==
    manifestMagicNumber \o BE32(manifestVersion) \o BE64(0) \o manifestMagicNumber

\* a manifest without entries in the layout of writeManifest of manifest.go, with
\* a valid CRC, for a version and a trailer of choice
CraftedManifest(version, trailer) ==
    withCRC[manifestMagicNumber \o BE32(version) \o BE64(0) \o trailer]

\* the bytes b with the last one altered
AlterLast(b) == [b EXCEPT ![Len(b)] = (@ + 1) % 256]

\* "../x", "/abs", "d/../../x", "d/f", "../e", "../l", "../u"
pathUpX == <<46, 46, 47, 120>>

pathAbs == <<47, 97, 98, 115>>

pathDownUp == <<100, 47, 46, 46, 47, 46, 46, 47, 120>>

pathDF == <<100, 47, 102>>

pathUpE == <<46, 46, 47, 101>>

pathUpL == <<46, 46, 47, 108>>

pathUpU == <<46, 46, 47, 117>>

\* a file type no constant names
fileTypeUnknown == 7

CraftedBlocks ==
    { CraftedHeader(q, fileTypeRegular, 3, <<>>) \o CraftedChunk(<<97, 98, 99>>) :
         q \in {nameA, pathUpX, pathAbs, pathDownUp, pathDF, nameL} }
    \cup { CraftedHeader(q, fileTypeDirectory, 0, <<>>) : q \in {nameD, pathUpE} }
    \cup { CraftedHeader(q, fileTypeSymlink, 0, targetUp) :
              q \in {nameL, pathUpL, nameD, nameA} }
    \cup { CraftedHeader(pathUpU, fileTypeUnknown, 0, <<>>),
           CraftedHeader(nameA, fileTypeRegular, 3, <<>>) \o Zeros(chunkHeaderSize) \o <<97, 98, 99>>,
           Take(CraftedHeader(nameA, fileTypeRegular, 0, <<>>), headerSize - 1),
           EmptyManifest }
    \cup { writeManifest(<<>>),
           AlterLast(writeManifest(<<>>)),
           CraftedManifest(manifestVersion + 1, manifestMagicNumber),
           CraftedManifest(manifestVersion, Zeros(4)) }
    \cup { CraftedHeader(nameA, fileTypeRegular, 3, <<>>)
              \o CraftedChunk(<<97, 98>>) \o CraftedChunk(<<>>) \o CraftedChunk(<<99>>),
           CraftedHeader(nameA, fileTypeRegular, 3, <<>>)
              \o chunkMagicNumber \o BE64(DefaultChunkSize + 1),
           CraftedHeader(nameBig, fileTypeRegular, DefaultChunkSize, <<>>)
              \o CraftedChunk(Repeat(7, DefaultChunkSize)) }
    \cup { CraftedHeader(nameP \o Slash \o nameF, fileTypeUnknown, 0, <<>>),
           CraftedVersionHeader(headerVersion + 1, nameD),
           CraftedHeader(nameA, fileTypeRegular, 3, <<>>) \o CraftedChunk(<<97, 98, 99, 100>>),
           <<1, 2>> }

CraftedStreams == CraftedBlocks \cup {a \o b : a, b \in CraftedBlocks}

\* NewDecoder(destPath, strict, c).Decode(r) on a crafted stream, the destination
\* fresh and empty
InitDecOn(streams) ==
    /\ src = TreeOf({}) /\ chunkSize = DefaultChunkSize /\ todo = <<>>
    /\ pc = "idle" /\ ret = "idle" /\ fh = NoHeader /\ offset = 0 /\ file = NoFile
    /\ bw = <<>> /\ bwErr = NoErr /\ wq = <<>> /\ wcont = "idle" /\ count = 0
    /\ manifestEntries = <<>> /\ walkErr = NoErr
    /\ faults = 0 /\ shorts = 0
    /\ pw = <<>> /\ pwKind = "none" /\ pwSent = 0 /\ werr = "none" /\ rclosed = FALSE
    /\ received = <<>> /\ cstate = "idle" /\ written = <<>>
    /\ strictMode \in BOOLEAN
    /\ dchunk \in {NewChunkSize(c) : c \in ChunkSizes}
    /\ din \in streams
    /\ dpos = 0 /\ dpc = "record" /\ dres = NoResult /\ dfs = FreshDest
    /\ dfile = NoFile /\ dfh = NoHeader /\ dtotal = 0 /\ dfs0 = FreshDest /\ dround = 1 /\ dfirst = FreshDest
    /\ FunIdle

InitDec == InitDecOn(CraftedStreams)

NextDec == DecodeRecord \/ DecodeChunk

SpecDec == InitDec /\ [][NextDec]_vars

(***************************************************************************)
(* The Decoder of dirDecoder.go, which scans for a chunk magic after a bad *)
(* chunk header.  It reads the headers of the codec without magic and CRC, *)
(* and its chunks carry magicNumber.                                       *)
(***************************************************************************)
\* 0xDEADBEEF
magicNumber == <<222, 173, 190, 239>>

\* writeHeader of that codec: [err, bytes]; on error nothing is written
writeHeaderV1(h) ==
    IF Len(h.FilePath) >= pathFieldSize
    THEN [err |-> "file path too long", bytes |-> <<>>]
    ELSE IF h.FileType = fileTypeSymlink /\ Len(h.LinkTarget) >= targetFieldSize
    THEN [err |-> "symlink target too long", bytes |-> <<>>]
    ELSE [err |-> NoErr,
          bytes |-> BE32(h.Version)
                    \o Field(h.FilePath, pathFieldSize)
                    \o BE64(h.FileSize)
                    \o h.FileMode
                    \o BE64Signed(h.ModTime)
                    \o <<h.FileType>>
                    \o Field(IF h.FileType = fileTypeSymlink THEN h.LinkTarget ELSE <<>>,
                             targetFieldSize)
                    \o Zeros(headerSize - (4 + 256 + 8 + 4 + 8 + 1 + 128))]

\* readHeader of that codec on the bytes left in the stream: [err, fh, n]; no
\* field is validated
readHeaderV1(rest) ==
    IF Len(rest) = 0 THEN [err |-> "EOF", fh |-> NoHeader, n |-> 0]
    ELSE IF Len(rest) < headerSize
    THEN [err |-> "unexpected EOF", fh |-> NoHeader, n |-> Len(rest)]
    ELSE LET ft == rest[4 + 256 + 8 + 4 + 8 + 1]
         IN [err |-> NoErr, n |-> headerSize,
             fh |-> [Version |-> U32(SubSeq(rest, 1, 4)),
                     FilePath |-> CString(SubSeq(rest, 5, 4 + 256)),
                     FileSize |-> U64(SubSeq(rest, 4 + 256 + 1, 4 + 256 + 8)),
                     FileMode |-> SubSeq(rest, 4 + 256 + 8 + 1, 4 + 256 + 8 + 4),
                     ModTime |-> I64(SubSeq(rest, 4 + 256 + 8 + 4 + 1, 4 + 256 + 8 + 4 + 8)),
                     FileType |-> ft,
                     LinkTarget |-> IF ft = fileTypeSymlink
                                    THEN CString(SubSeq(rest, 4 + 256 + 8 + 4 + 8 + 1 + 1,
                                                        4 + 256 + 8 + 4 + 8 + 1 + 128))
                                    ELSE <<>>]]

ErrNoSeek == "stream does not support seeking, cannot recover"

\* recover on the bytes left in the stream: [err, n] with n bytes consumed.  The
\* window of four bytes starts out holding the magic and takes one byte per read;
\* the reader is Decode's *bufio.Reader, which is no io.Seeker.
recover(rest) ==
    LET window(i) == SubSeq(magicNumber \o rest, i + 1, i + 4)
        hits == {i \in 1..Len(rest) : window(i) = magicNumber}
    IN IF hits = {} THEN [err |-> "EOF", n |-> Len(rest)]
       ELSE [err |-> ErrNoSeek, n |-> CHOOSE i \in hits : \A j \in hits : i <= j]

\* what Decode does with a header it has read
DecodeEntryV1(h) ==
    \E fullPath \in {JoinClean(destPath, h.FilePath)} :
    \E up \in {MkdirAll(dfs, Parent(fullPath), parentDirMode)} :
       IF up.err # NoErr
       THEN /\ DecodeReturn(up.err, up.err)
            /\ dfs' = up.fs
            /\ UNCHANGED dtotal
       ELSE IF h.FileType = fileTypeDirectory
       THEN \E mk \in {MkdirAll(up.fs, fullPath, h.FileMode)} :
               /\ dfs' = mk.fs
               /\ UNCHANGED dtotal
               /\ IF mk.err # NoErr
                  THEN DecodeReturn(mk.err, mk.err)
                  ELSE UNCHANGED <<dres, dfile, dpc>>
       ELSE IF h.FileType = fileTypeSymlink
       THEN \E sl \in {Symlink(Remove(up.fs, fullPath).fs, h.LinkTarget, fullPath)} :
               /\ dfs' = sl.fs
               /\ UNCHANGED dtotal
               /\ IF sl.err # NoErr
                  THEN DecodeReturn(sl.err, sl.err)
                  ELSE UNCHANGED <<dres, dfile, dpc>>
       ELSE IF h.FileType = fileTypeRegular
       THEN \E o \in {OpenFile(up.fs, fullPath, h.FileMode)} :
               /\ dfs' = o.fs
               /\ dtotal' = 0
               /\ IF o.err # NoErr
                  THEN DecodeReturn(o.err, o.err)
                  ELSE /\ dfile' = [open |-> TRUE, path |-> o.path, pos |-> 0]
                       /\ dpc' = "chunkV1"
                       /\ UNCHANGED dres
       ELSE /\ DecodeReturn("unknown file type", NoErr)
            /\ dfs' = up.fs
            /\ UNCHANGED dtotal

\* one turn of Decode's outer loop, up to the chunks of a regular file
DecodeRecordV1 ==
    /\ dpc = "recordV1"
    /\ \E h \in {readHeaderV1(Drop(din, dpos))} :
          /\ dpos' = dpos + h.n
          /\ dfh' = h.fh
          /\ IF h.err = "EOF"
             THEN /\ DecodeReturn(NoErr, NoErr)
                  /\ UNCHANGED <<dfs, dtotal>>
             ELSE IF h.err # NoErr
             THEN /\ DecodeReturn(h.err, h.err)
                  /\ UNCHANGED <<dfs, dtotal>>
             ELSE DecodeEntryV1(h.fh)
    /\ dfs0' = dfs
    /\ UNCHANGED <<strictMode, dchunk, din, dround, dfirst>>
    /\ UNCHANGED <<encVars, pipeVars, consVars, funVars>>

\* after a chunk header that could not be read or has a wrong magic: the file is
\* closed and recover runs on what follows the n bytes the header read took
\* (and the same with the reader set back to where the chunk header began)
RecoverAfterRewinds(n) ==
    \E rec \in {recover(Drop(din, dpos + n))} :
       /\ dpos' = dpos
       /\ IF rec.err = "EOF" THEN DecodeReturn(NoErr, NoErr)
          ELSE IF strictMode THEN DecodeReturn(rec.err, NoErr)
          ELSE /\ dfile' = NoFile
               /\ dpc' = "recordV1"
               /\ UNCHANGED dres

RecoverAfter(n) ==
    \E rec \in {recover(Drop(din, dpos + n))} :
       /\ dpos' = dpos + n + rec.n
       /\ IF rec.err = "EOF" THEN DecodeReturn(NoErr, NoErr)
          ELSE IF strictMode THEN DecodeReturn(rec.err, NoErr)
          ELSE /\ dfile' = NoFile
               /\ dpc' = "recordV1"
               /\ UNCHANGED dres

\* one turn of the chunk loop of a regular file, or its end
DecodeChunkV1 ==
    /\ dpc = "chunkV1"
    /\ LET rest == Drop(din, dpos)
           chunkLength == U64(SubSeq(rest, 5, 12))
       IN IF dtotal >= dfh.FileSize
          THEN /\ dfile' = NoFile
               /\ dpc' = "recordV1"
               /\ UNCHANGED <<dpos, dres, dfs, dtotal>>
          ELSE IF Len(rest) < chunkHeaderSize
          THEN /\ RecoverAfter(Len(rest))
               /\ UNCHANGED <<dfs, dtotal>>
          ELSE IF SubSeq(rest, 1, 4) # magicNumber
          THEN /\ RecoverAfter(chunkHeaderSize)
               /\ UNCHANGED <<dfs, dtotal>>
          ELSE IF chunkLength > dchunk
          THEN /\ DecodeReturn("invalid chunk length", NoErr)
               /\ dpos' = dpos + chunkHeaderSize
               /\ UNCHANGED <<dfs, dtotal>>
          ELSE IF Len(rest) - chunkHeaderSize < chunkLength
          THEN /\ DecodeReturn("error reading chunk data",
                               IF Len(rest) = chunkHeaderSize THEN "EOF" ELSE "unexpected EOF")
               /\ dpos' = Len(din)
               /\ UNCHANGED <<dfs, dtotal>>
          ELSE /\ dfs' = [dfs EXCEPT ![dfile.path].data =
                             @ \o SubSeq(rest, chunkHeaderSize + 1, chunkHeaderSize + chunkLength)]
               /\ dtotal' = dtotal + chunkLength
               /\ dpos' = dpos + chunkHeaderSize + chunkLength
               /\ UNCHANGED <<dres, dfile, dpc>>
    /\ UNCHANGED <<strictMode, dchunk, din, dfh, dfs0, dround, dfirst>>
    /\ UNCHANGED <<encVars, pipeVars, consVars, funVars>>

\* streams for that decoder: one or two blocks out of CraftedBlocksV1
CraftedHeaderV1(path, type, size, target) ==
    writeHeaderV1([Version |-> headerVersion, FilePath |-> path, FileSize |-> size,
                   FileMode |-> IF type = fileTypeDirectory THEN ModeWord("dir", 493)
                                ELSE IF type = fileTypeSymlink THEN ModeWord("symlink", 511)
                                ELSE ModeWord("file", 420),
                   ModTime |-> 0, FileType |-> type, LinkTarget |-> target]).bytes

CraftedChunkV1(data) == magicNumber \o BE64(Len(data)) \o data

\* a chunk whose magic has its lowest bit of the first byte flipped
FlippedChunkV1(data) == <<223, 173, 190, 239>> \o BE64(Len(data)) \o data

CraftedBlocksV1 ==
    { CraftedHeaderV1(nameA, fileTypeRegular, 3, <<>>) \o CraftedChunkV1(<<97, 98, 99>>),
      CraftedHeaderV1(nameA, fileTypeRegular, 3, <<>>)
         \o CraftedChunkV1(<<97, 98>>) \o CraftedChunkV1(<<99>>),
      CraftedHeaderV1(nameA, fileTypeRegular, 3, <<>>)
         \o CraftedChunkV1(<<97, 98>>) \o FlippedChunkV1(<<99>>),
      CraftedHeaderV1(nameA, fileTypeRegular, 3, <<>>) \o Zeros(chunkHeaderSize) \o <<97, 98, 99>>,
      CraftedHeaderV1(nameA, fileTypeRegular, 3, <<>>) \o Take(CraftedChunkV1(<<97, 98, 99>>), 5),
      CraftedHeaderV1(nameF, fileTypeRegular, 1, <<>>) \o CraftedChunkV1(<<104>>),
      CraftedHeaderV1(nameD, fileTypeDirectory, 0, <<>>),
      CraftedHeaderV1(nameL, fileTypeSymlink, 0, targetUp),
      Take(CraftedHeaderV1(nameD, fileTypeDirectory, 0, <<>>), headerSize - 1) }

CraftedStreamsV1 == CraftedBlocksV1 \cup {a \o b : a, b \in CraftedBlocksV1}

\* no Encoder runs
EncoderIdle ==
    /\ src = TreeOf({}) /\ chunkSize = DefaultChunkSize /\ todo = <<>>
    /\ pc = "idle" /\ ret = "idle" /\ fh = NoHeader /\ offset = 0 /\ file = NoFile
    /\ bw = <<>> /\ bwErr = NoErr /\ wq = <<>> /\ wcont = "idle" /\ count = 0
    /\ manifestEntries = <<>> /\ walkErr = NoErr
    /\ faults = 0 /\ shorts = 0
    /\ pw = <<>> /\ pwKind = "none" /\ pwSent = 0 /\ werr = "none" /\ rclosed = FALSE
    /\ received = <<>> /\ cstate = "idle" /\ written = <<>>

\* NewDecoder(destPath, strict, c).Decode(r) of dirDecoder.go on a crafted stream,
\* the destination fresh and empty
InitRec ==
    /\ EncoderIdle
    /\ strictMode \in BOOLEAN
    /\ dchunk \in {NewChunkSize(c) : c \in ChunkSizes}
    /\ din \in CraftedStreamsV1
    /\ dpos = 0 /\ dpc = "recordV1" /\ dres = NoResult /\ dfs = FreshDest
    /\ dfile = NoFile /\ dfh = NoHeader /\ dtotal = 0 /\ dfs0 = FreshDest /\ dround = 1 /\ dfirst = FreshDest
    /\ FunIdle

NextRec == DecodeRecordV1 \/ DecodeChunkV1

SpecRec == InitRec /\ [][NextRec]_vars

\* the crafted blocks alone, and each after a directory record and after a file
\* with a chunk of length zero among its chunks
TerminationStreams ==
    CraftedBlocks
    \cup { a \o b : a \in { CraftedHeader(nameD, fileTypeDirectory, 0, <<>>),
                               CraftedHeader(nameA, fileTypeRegular, 3, <<>>)
                                  \o CraftedChunk(<<97, 98>>) \o CraftedChunk(<<>>)
                                  \o CraftedChunk(<<99>>) },
                     b \in CraftedBlocks }

\* either Decode on a crafted stream, each statement of its loops taken in turn
InitDecoders == InitDecOn(TerminationStreams) \/ InitRec

NextDecoders == NextDec \/ NextRec

FairDecoders == InitDecoders /\ [][NextDecoders]_vars /\ WF_vars(NextDecoders)

(***************************************************************************)
(* Functions of the package called by themselves: the call is drawn from   *)
(* FunCalls, and one step returns from it.                                 *)
(***************************************************************************)
\* strings.Contains(s, substr)
Contains(s, substr) ==
    \E i \in 0..(Len(s) - Len(substr)) : SubSeq(s, i + 1, i + Len(substr)) = substr

\* the path filepath.WalkDir(rootPath, ...) hands the callback for the entry at
\* relative path q: the root as given, below it filepath.Join(dir, name)
WalkPath(rootPath, q) ==
    IF Len(q) = 0 THEN rootPath ELSE rootPath \o Slash \o JoinPath(q)

\* the callback of BuildRelativeFileList finds an exclude in the path of entry q
CallbackExcludes(rootPath, q, excludes) ==
    \E i \in 1..Len(excludes) : Contains(WalkPath(rootPath, q), excludes[i])

\* BuildRelativeFileList(rootPath, excludes) over the tree under rootPath: the walk
\* does not descend into a directory for which the callback returned SkipDir
BuildRelativeFileListOf(rootPath, tree, excludes) ==
    LET skipped(q) == \E k \in 0..(Len(q) - 1) :
                         CallbackExcludes(rootPath, Take(q, k), excludes)
        listed == SelectSeq(WalkOrder(DOMAIN tree),
                            LAMBDA q : /\ ~skipped(q)
                                       /\ ~CallbackExcludes(rootPath, q, excludes)
                                       /\ Rel(q) # Dot)
    IN [i \in 1..Len(listed) |-> Rel(listed[i])]

\* "r", "/b/r"
rootR == <<114>>

rootBR == <<47, 98, 47, 114>>

ListRoots == {rootR, rootBR}

\* the trees under the root: a, d, d/f and l in every combination that has the
\* directory of each entry
ListTrees ==
    { TreeOf(E) : E \in { E \in SUBSET { [path |-> <<nameA>>, node |-> FileNode(420, <<>>, 0)],
                                         [path |-> <<nameD>>, node |-> DirNode(493, 0)],
                                         [path |-> <<nameD, nameF>>, node |-> FileNode(420, <<>>, 0)],
                                         [path |-> <<nameL>>, node |-> SymlinkNode(nameA, 0)] } :
                            \A e \in E : Len(e.path) > 1 =>
                                  \E f \in E : f.path = Parent(e.path) } }

\* nil, "b", "f", "d", "r/d", and "a" with "f"
ListExcludes ==
    { <<>>, <<(<<98>>)>>, <<nameF>>, <<nameD>>, <<rootR \o Slash \o nameD>>, <<nameA, nameF>> }

\* Decoder.recover(r) on a reader that is an io.Seeker, over the bytes data and at
\* offset pos: [err, pos]; magic is the magic number the Decoder scans for
\* (and the same with the window seeded one byte further on)
recoverSeekerSeedShifted(magic, data, pos) ==
    LET rest == Drop(data, pos)
        window(i) == SubSeq(<<0>> \o Take(magic, 3) \o rest, i + 1, i + 4)
        hits == {i \in 1..Len(rest) : window(i) = magic}
        n == CHOOSE i \in hits : \A j \in hits : i <= j
    IN IF hits = {} THEN [err |-> "EOF", pos |-> Len(data)]
       ELSE IF pos + n - (chunkHeaderSize - 4) < 0
       THEN [err |-> "Seek: negative position", pos |-> pos + n]
       ELSE [err |-> NoErr, pos |-> pos + n - (chunkHeaderSize - 4)]

recoverSeeker(magic, data, pos) ==
    LET rest == Drop(data, pos)
        window(i) == SubSeq(magic \o rest, i + 1, i + 4)
        hits == {i \in 1..Len(rest) : window(i) = magic}
        n == CHOOSE i \in hits : \A j \in hits : i <= j
    IN IF hits = {} THEN [err |-> "EOF", pos |-> Len(data)]
       ELSE IF pos + n - (chunkHeaderSize - 4) < 0
       THEN [err |-> "Seek: negative position", pos |-> pos + n]
       ELSE [err |-> NoErr, pos |-> pos + n - (chunkHeaderSize - 4)]

\* the longest run of bytes before the chunk header in the streams recover is
\* called on
MaxJunk == 9

\* junk, then a chunk of one byte; the last bytes of the magic, alone and before
\* a chunk of one byte
RecoverStreams(magic) ==
    { Repeat(1, k) \o magic \o BE64(1) \o <<7>> : k \in 0..MaxJunk }
    \cup { Repeat(1, MaxJunk) }
    \cup { Drop(magic, k) : k \in 1..3 }
    \cup { Drop(magic, k) \o <<1>> \o magic \o BE64(1) \o <<7>> : k \in 1..3 }

\* buf with the bytes b copied to its 0-based offset at
Put(buf, at, b) == Take(buf, at) \o b \o Drop(buf, at + Len(b))

\* writeHeader of fileHeader.go: [err, bytes]; no CRC, and the file size starts at
\* byte 260, four bytes before the end of the path field
writeHeaderNoCRC(h) ==
    IF Len(h.FilePath) >= 256
    THEN [err |-> "file path too long", bytes |-> <<>>]
    ELSE IF h.FileType = fileTypeSymlink /\ Len(h.LinkTarget) >= 128
    THEN [err |-> "symlink target too long", bytes |-> <<>>]
    ELSE LET b0 == Put(Put(Zeros(headerSize), 0, fileHeaderMagicNumber), 4, BE32(h.Version))
             b1 == Put(b0, 8, h.FilePath \o <<0>>)
             b2 == Put(Put(b1, 260, BE64(h.FileSize)), 268, h.FileMode)
             b3 == Put(Put(b2, 272, BE64Signed(h.ModTime)), 280, <<h.FileType>>)
         IN [err |-> NoErr,
             bytes |-> IF h.FileType = fileTypeSymlink
                       THEN Put(b3, 281, h.LinkTarget \o <<0>>)
                       ELSE b3]

\* readHeader of fileHeader.go on the bytes left in the stream: [err, fh, n]
readHeaderNoCRC(rest) ==
    IF Len(rest) = 0 THEN [err |-> "EOF", fh |-> NoHeader, n |-> 0]
    ELSE IF Len(rest) < headerSize
    THEN [err |-> "unexpected EOF", fh |-> NoHeader, n |-> Len(rest)]
    ELSE LET hb == SubSeq(rest, 1, headerSize)
             ft == hb[280 + 1]
         IN IF SubSeq(hb, 1, 4) # fileHeaderMagicNumber
            THEN [err |-> "invalid header magic number", fh |-> NoHeader, n |-> headerSize]
            ELSE [err |-> NoErr, n |-> headerSize,
                  fh |-> [Version |-> U32(SubSeq(hb, 5, 8)),
                          FilePath |-> CString(SubSeq(hb, 9, 264)),
                          FileSize |-> U64(SubSeq(hb, 261, 268)),
                          FileMode |-> SubSeq(hb, 269, 272),
                          ModTime |-> I64(SubSeq(hb, 273, 280)),
                          FileType |-> ft,
                          LinkTarget |-> IF ft = fileTypeSymlink
                                         THEN CString(SubSeq(hb, 282, 409))
                                         ELSE <<>>]]

\* the two header codecs: "crc" is the one with magic and CRC, "nocrc" the one of
\* fileHeader.go
WriteHeaderBy(codec, h) == IF codec = "crc" THEN writeHeader(h) ELSE writeHeaderNoCRC(h)

ReadHeaderBy(codec, rest) == IF codec = "crc" THEN readHeader(rest) ELSE readHeaderNoCRC(rest)

\* the longest path that ends before byte 260 of the header
ShortOfSize == 260 - 8

HeaderPaths == {<<>>, nameA, Repeat(120, ShortOfSize), Repeat(120, pathFieldSize - 1)}

HeaderTargets == {<<>>, targetUp, Repeat(121, targetFieldSize - 1)}

\* the headers written and read back
HeaderInputs ==
    { [Version |-> headerVersion, FilePath |-> q, FileSize |-> n, FileMode |-> m,
       ModTime |-> t, FileType |-> ty,
       LinkTarget |-> IF ty = fileTypeSymlink THEN g ELSE <<>>] :
         q \in HeaderPaths, n \in {0, Huge}, m \in {ModeWord("file", 420), <<255, 255, 255, 255>>},
         t \in {-1, 0, 1700000000},
         ty \in {fileTypeRegular, fileTypeDirectory, fileTypeSymlink}, g \in HeaderTargets }

\* the bytes b with the one at 0-based offset at altered
AlterAt(b, at) == [b EXCEPT ![at + 1] = (@ + 1) % 256]

\* where the blocks handed to readHeader are altered: in the magic, the version,
\* the path, the reserved area and the CRC
AlteredOffsets == {0, 7, 8, 450, 508, 511}

\* the header of a.txt as each codec writes it: whole, with another magic and the
\* CRC that goes with it, and with one byte altered
HeaderBlocks(codec) ==
    LET good == WriteHeaderBy(codec, HeaderOf(<<nameA>>, FileNode(420, <<97, 98, 99>>, 0))).bytes
    IN {good, withCRC[AlterAt(Take(good, headerSize - 4), 0)]}
       \cup {AlterAt(good, at) : at \in AlteredOffsets}

\* a path of LongPath bytes: its length needs both bytes of the length field
LongPath == 300

\* entries of a manifest: of each type, with an empty path, with a path that
\* spells the manifest magic, with a long path and with a large size
ManifestInputs ==
    { [HeaderOffset |-> 0, FileSize |-> 3, FileType |-> fileTypeRegular, FilePath |-> nameA],
      [HeaderOffset |-> 524, FileSize |-> 0, FileType |-> fileTypeDirectory, FilePath |-> nameD],
      [HeaderOffset |-> 1036, FileSize |-> 0, FileType |-> fileTypeSymlink, FilePath |-> nameL],
      [HeaderOffset |-> 0, FileSize |-> 0, FileType |-> fileTypeRegular, FilePath |-> <<>>],
      [HeaderOffset |-> 524, FileSize |-> Huge, FileType |-> fileTypeRegular,
       FilePath |-> manifestMagicNumber],
      [HeaderOffset |-> 0, FileSize |-> 3, FileType |-> fileTypeRegular,
       FilePath |-> Repeat(97, LongPath)] }

\* the tables handed to writeManifest: none, one or two entries
ManifestLists ==
    {<<>>} \cup {<<e>> : e \in ManifestInputs}
           \cup {<<e1, e2>> : e1, e2 \in ManifestInputs}

FunCalls ==
    { [fn |-> "BuildRelativeFileList", rootPath |-> r, tree |-> t, excludes |-> x] :
         r \in ListRoots, t \in ListTrees, x \in ListExcludes }
    \cup UNION { { c \in { [fn |-> "recover", magic |-> m, data |-> b, pos |-> at] :
                                b \in RecoverStreams(m), at \in {0, 2} } :
                       c.pos <= Len(c.data) } :
                    m \in {magicNumber, chunkMagicNumber} }
    \cup { [fn |-> "writeHeader", codec |-> c, fh |-> h] :
              c \in {"crc", "nocrc"}, h \in HeaderInputs }
    \cup UNION { { [fn |-> "readHeader", codec |-> c, block |-> b] : b \in HeaderBlocks(c) } :
                    c \in {"crc", "nocrc"} }
    \cup { [fn |-> "writeManifest", entries |-> es] : es \in ManifestLists }

\* BuildRelativeFileList returns
CallBuildRelativeFileList ==
    /\ fin.fn = "BuildRelativeFileList"
    /\ fout = NoCall
    /\ fout' = [fn |-> fin.fn, err |-> NoErr,
                files |-> BuildRelativeFileListOf(fin.rootPath, fin.tree, fin.excludes)]
    /\ UNCHANGED <<fin, encVars, pipeVars, consVars, decVars>>

\* recover returns
CallRecover ==
    /\ fin.fn = "recover"
    /\ fout = NoCall
    /\ \E r \in {recoverSeeker(fin.magic, fin.data, fin.pos)} :
          fout' = [fn |-> fin.fn, err |-> r.err, pos |-> r.pos]
    /\ UNCHANGED <<fin, encVars, pipeVars, consVars, decVars>>

\* writeHeader returns, and readHeader returns on the bytes it wrote
CallWriteHeader ==
    /\ fin.fn = "writeHeader"
    /\ fout = NoCall
    /\ \E w \in {WriteHeaderBy(fin.codec, fin.fh)} :
          \E r \in {ReadHeaderBy(fin.codec, w.bytes)} :
             fout' = [fn |-> fin.fn, werr |-> w.err, bytes |-> w.bytes,
                      err |-> r.err, fh |-> r.fh]
    /\ UNCHANGED <<fin, encVars, pipeVars, consVars, decVars>>

\* readHeader returns
CallReadHeader ==
    /\ fin.fn = "readHeader"
    /\ fout = NoCall
    /\ \E r \in {ReadHeaderBy(fin.codec, fin.block)} :
          fout' = [fn |-> fin.fn, err |-> r.err, fh |-> r.fh]
    /\ UNCHANGED <<fin, encVars, pipeVars, consVars, decVars>>

\* writeManifest returns, and readManifest returns on the bytes it wrote
CallWriteManifest ==
    /\ fin.fn = "writeManifest"
    /\ fout = NoCall
    /\ \E b \in {writeManifest(fin.entries)} :
          \E r \in {readManifestCRC(b)} :
             fout' = [fn |-> fin.fn, bytes |-> b, err |-> r.err, entries |-> r.entries]
    /\ UNCHANGED <<fin, encVars, pipeVars, consVars, decVars>>

\* no Encoder and no Decoder runs; one function is called
InitFun ==
    /\ EncoderIdle
    /\ DecoderIdle
    /\ fin \in FunCalls
    /\ fout = NoCall

NextFun ==
    \/ CallBuildRelativeFileList
    \/ CallRecover
    \/ CallWriteHeader
    \/ CallReadHeader
    \/ CallWriteManifest

SpecFun == InitFun /\ [][NextFun]_vars

(***************************************************************************)
(* Properties.                                                             *)
(***************************************************************************)
\* the relative paths of the entries the decoder left under the destination
DestPaths == {Drop(q, Len(destPath)) : q \in {r \in DOMAIN dfs : Len(r) > Len(destPath)
                                                 /\ Take(r, Len(destPath)) = destPath}}

\* the destination holds the entries of the source: the same relative paths, each
\* with the same type, the same bytes if a regular file, the same target if a symlink
SameTree ==
    /\ DestPaths = (DOMAIN src) \ {<<>>}
    /\ \A q \in DestPaths :
          /\ dfs[destPath \o q].type = src[q].type
          /\ dfs[destPath \o q].data = src[q].data
          /\ dfs[destPath \o q].target = src[q].target

\* the source holds only regular files, directories and symlinks, every relative
\* path at most 255 bytes and every link target at most 127 bytes
RoundTripSource ==
    \A q \in DOMAIN src :
       /\ src[q].type \in {"file", "dir", "symlink"}
       /\ Len(Rel(q)) <= pathFieldSize - 1
       /\ Len(src[q].target) <= targetFieldSize - 1

\* C1: when Decode has returned on the whole stream of a source of regular files,
\* directories and symlinks with paths of at most 255 and targets of at most 127
\* bytes, it returned no error and the destination holds the same paths, types,
\* file bytes and link targets as the source (here even only when encoder and
\* decoder were given the same chunk size).
C1_RoundTrip ==
    (dpc = "done" /\ RoundTripSource /\ dchunk = chunkSize)
        => (dres.err = NoErr /\ SameTree)


\* a relative path, its components cleaned: how far it climbs above its start, and
\* what remains below
RECURSIVE CleanRel(_, _, _)
CleanRel(ups, done, raw) ==
    IF Len(raw) = 0 THEN [ups |-> ups, comps |-> done]
    ELSE LET c == Head(raw)
         IN IF c = <<>> \/ c = Dot THEN CleanRel(ups, done, Tail(raw))
            ELSE IF c = DotDot
            THEN IF Len(done) > 0 THEN CleanRel(ups, Parent(done), Tail(raw))
                 ELSE CleanRel(ups + 1, done, Tail(raw))
            ELSE CleanRel(ups, done \o <<c>>, Tail(raw))

\* the path is absolute, keeps a ".." segment when cleaned, or leaves the destination
UnsafePath(p) ==
    \/ Len(p) > 0 /\ p[1] = 47
    \/ CleanRel(0, <<>>, SplitPath(p)).ups > 0
    \/ Take(JoinClean(destPath, p), Len(destPath)) # destPath

\* the step of Decode at hand reads a header (CRC and magic good) with an unsafe path
ReadsUnsafeHeader ==
    /\ dpc = "record"
    /\ Len(din) - dpos >= 4
    /\ SubSeq(din, dpos + 1, dpos + 4) # manifestMagicNumber
    /\ dpos' = dpos + headerSize
    /\ dres'.err # "Decode: error reading header"
    /\ UnsafePath(dfh'.FilePath)

\* C2: a step of Decode that reads a header whose path is absolute, keeps a ".."
\* segment when cleaned or leaves the destination ends Decode with an error and
\* changes nothing in the file system, in strict and in non-strict mode.
C2_PathSafety ==
    [][ReadsUnsafeHeader => (dres'.err \notin {"none", NoErr} /\ dfs' = dfs)]_vars


\* where the chunks of a file of size bytes end, read from 0-based offset at with
\* total bytes of it seen: the offset after them, or -1 if they are not well formed
RECURSIVE ChunksEnd(_, _, _, _)
ChunksEnd(data, at, total, size) ==
    IF total >= size THEN at
    ELSE IF Len(data) - at < chunkHeaderSize THEN -1
    ELSE IF SubSeq(data, at + 1, at + 4) # chunkMagicNumber THEN -1
    ELSE LET n == U64(SubSeq(data, at + 5, at + 12))
         IN IF n = 0 \/ Len(data) - at - chunkHeaderSize < n THEN -1
            ELSE ChunksEnd(data, at + chunkHeaderSize + n, total + n, size)

\* the header that starts at 0-based offset at, unless a manifest starts there
HeaderAt(data, at) ==
    IF Len(data) - at >= 4 /\ SubSeq(data, at + 1, at + 4) = manifestMagicNumber
    THEN [err |-> "manifest", fh |-> NoHeader, n |-> 0]
    ELSE readHeader(Drop(data, at))

\* the records at the start of a stream: their headers, the offsets of the headers,
\* and the offset at which the records end; h is the header read at offset at
RECURSIVE RecordsFrom(_, _, _, _, _)
RecordsFrom(data, at, hs, offs, h) ==
    LET end == IF h.err # NoErr THEN -1
               ELSE ChunksEnd(data, at + headerSize, 0,
                              IF h.fh.FileType = fileTypeRegular THEN h.fh.FileSize ELSE 0)
    IN IF end = -1 THEN [headers |-> hs, offsets |-> offs, end |-> at]
       ELSE RecordsFrom(data, end, Append(hs, h.fh), Append(offs, at),
                        HeaderAt(data, end))

Records(data) ==
    RecordsFrom(data, 0, <<>>, <<>>, HeaderAt(data, 0))

\* the stream the consumer has read to its clean end
StreamRecords == Records(received)

\* the manifest behind the records rs of the stream has one entry for each header,
\* in order, with the path, the size and the type of the header
EntriesMatch(entries, hs) ==
    /\ Len(entries) = Len(hs)
    /\ \A i \in 1..Len(hs) :
          /\ entries[i].FilePath = hs[i].FilePath
          /\ entries[i].FileSize = hs[i].FileSize
          /\ entries[i].FileType = hs[i].FileType

ManifestAfter(rs) == readManifestCRC(Drop(received, rs.end))

ManifestMatches(rs) ==
    /\ ManifestAfter(rs).err = NoErr
    /\ EntriesMatch(ManifestAfter(rs).entries, rs.headers)

\* C3: a stream the consumer read to a clean end (Encode closed it without error)
\* is a sequence of records followed by one manifest block that ends the stream.
C3_EndsWithManifest ==
    cstate = "EOF" => ManifestAfter(StreamRecords).err = NoErr

\* C4: in a stream read to a clean end the manifest after the records has as many
\* entries as there are record headers, the i-th entry with the path, the size
\* and the type of the i-th header.
C4_ManifestMatchesHeaders ==
    cstate = "EOF" => ManifestMatches(StreamRecords)


\* the manifest table holds these header offsets, in this order
OffsetsAre(offs) ==
    /\ Len(manifestEntries) = Len(offs)
    /\ \A i \in 1..Len(manifestEntries) : manifestEntries[i].HeaderOffset = offs[i]

\* C5: when the offset of a header is captured the buffered writer holds no byte
\* and the offset is the number of bytes written so far, all of them read by the
\* consumer; that offset goes into the manifest entry of the record; and in a
\* stream read to its clean end the i-th entry of the table holds the offset at
\* which the i-th header starts.
C5_HeaderOffsets ==
    /\ [][(pc = "header" /\ pc' = "write")
            => (bw = <<>> /\ offset' = Len(written) /\ offset' = Len(received))]_vars
    /\ [][(pc = "afterHeader" /\ pc' # "afterHeader")
            => manifestEntries'[Len(manifestEntries')].HeaderOffset = offset]_vars
    /\ [](cstate = "EOF" => OffsetsAre(StreamRecords.offsets))

\* a third header was captured behind a file with a chunk, and the stream was read
\* to its end
C5_Witness ==
    /\ cstate = "EOF"
    /\ Len(manifestEntries) = 3
    /\ manifestEntries[3].HeaderOffset > 2 * headerSize + chunkHeaderSize

\* BuildRelativeFileList(rootPath, nil): the relative paths under the root in the
\* order of the walk, the root itself left out
BuildRelativeFileList ==
    SelectSeq(WalkOrder(DOMAIN src), LAMBDA q : Rel(q) # Dot)

\* the entries of that list the encoder has a record for (regular files,
\* directories and symlinks)
ListedRecords ==
    SelectSeq(BuildRelativeFileList, LAMBDA q : src[q].type # "other")

\* the headers hs are those of the paths qs, in order
RecordsAre(hs, qs) ==
    /\ Len(hs) = Len(qs)
    /\ \A i \in 1..Len(qs) : hs[i].FilePath = Rel(qs[i])

\* C6: a stream read to its clean end holds one record for each entry of the list
\* of relative paths, in the order of the list, and none for the root; for an
\* empty list the stream is the manifest alone, with no entry.
C6_OneRecordPerEntry ==
    cstate = "EOF"
        => /\ RecordsAre(StreamRecords.headers, ListedRecords)
           /\ Len(BuildRelativeFileList) = 0 => received = writeManifest(<<>>)

\* the root holds the file a.txt with the bytes "abc" and the empty directory d,
\* the chunk size is the default and no read of a.txt came back short
AbcAndD ==
    /\ DOMAIN src = {<<>>, <<nameA>>, <<nameD>>}
    /\ src[<<nameA>>].type = "file" /\ src[<<nameA>>].data = <<97, 98, 99>>
    /\ src[<<nameD>>].type = "dir"
    /\ chunkSize = DefaultChunkSize
    /\ shorts = MaxShortReads

\* C7: the stream of that root, read to its clean end, is the header of a.txt with
\* size 3, one chunk of length 3 with "abc", the header of d, a directory of size
\* 0, and the manifest with the two entries at offsets 0 and 527.
C7_AbcAndDStream ==
    (AbcAndD /\ cstate = "EOF")
        => received =
              writeHeader(HeaderOf(<<nameA>>, src[<<nameA>>])).bytes
              \o chunkMagicNumber \o BE64(3) \o <<97, 98, 99>>
              \o writeHeader(HeaderOf(<<nameD>>, src[<<nameD>>])).bytes
              \o writeManifest(<< [HeaderOffset |-> 0, FileSize |-> 3,
                                   FileType |-> fileTypeRegular, FilePath |-> nameA],
                                  [HeaderOffset |-> headerSize + chunkHeaderSize + 3,
                                   FileSize |-> 0, FileType |-> fileTypeDirectory,
                                   FilePath |-> nameD] >>)

\* C8: once the walk has failed with an error, what the consumer's read returns
\* at the end of the stream is that error, never io.EOF, and by then the consumer
\* has read every byte written before the error.
C8_ErrorReachesConsumer ==
    (walkErr # NoErr /\ cstate \notin {"reading", "closed"})
        => (cstate = walkErr /\ cstate # "EOF" /\ received = written)

\* a read of a source file failed after a header and a chunk were written, and the
\* consumer got the bytes and then the error
C8_Witness ==
    /\ cstate = "read failed"
    /\ Len(received) > headerSize + headerSize + chunkHeaderSize

\* C9: once the consumer has closed the read end, the pipe write the producer is
\* blocked in or starts next fails; once a write has failed nothing more is
\* written or reaches the pipe; the callback leaves with the source file closed;
\* and the producer comes to its end.
C9_ReadEndClosed ==
    /\ [][(rclosed /\ pc = "blocked" /\ Len(pw) > 0 /\ pc' # "blocked")
            => bwErr' = ErrClosedPipe]_vars
    /\ [][bwErr # NoErr
            => (written' = written /\ received' = received)]_vars
    /\ [](pc \in {"finalFlush", "close", "deferClose", "done"} => file = NoFile)
    /\ (rclosed ~> pc = "done")

\* the consumer has closed the read end and the write of a chunk has failed, the
\* source file still open in the callback that is about to return the error
C9_Witness ==
    /\ rclosed
    /\ bwErr = ErrClosedPipe
    /\ pc = "write"
    /\ file.open

\* C10: what the consumer has read is always a prefix of what the producer has
\* written, and it is all of it when the consumer sees the end of the stream.
C10_PrefixOfWritten ==
    /\ Len(received) <= Len(written)
    /\ received = Take(written, Len(received))
    /\ cstate = "EOF" => received = written

\* the stream of the big file, which went through the buffered writer in more
\* than one write to the pipe, read to its end in small reads
C10_Witness ==
    /\ cstate = "EOF"
    /\ Len(received) > defaultBufSize
    /\ received = written



\* the decoder stands before a chunk header that does not validate: fewer than
\* chunkHeaderSize bytes are left, the magic is wrong, or the length exceeds
\* the ceiling
ChunkHeaderFails ==
    /\ dpc \in {"chunk", "chunkV1"}
    /\ dtotal < dfh.FileSize
    /\ LET rest == Drop(din, dpos)
       IN \/ Len(rest) < chunkHeaderSize
          \/ SubSeq(rest, 1, 4) # (IF dpc = "chunkV1" THEN magicNumber ELSE chunkMagicNumber)
          \/ U64(SubSeq(rest, 5, 12)) > dchunk

\* Decode has returned an error
DecodeFailed == dres.err \notin {"none", NoErr}

\* C11: in strict mode a chunk header that does not validate makes Decode close
\* the destination file and return an error, without scanning on: it reads no
\* byte beyond the chunk header and does not return success
C11_StrictChunkHeaderFailure ==
    [][(strictMode /\ ChunkHeaderFails) =>
          (dfile' = NoFile /\ DecodeFailed' /\ dpos' <= dpos + chunkHeaderSize)]_vars

\* C12: in strict mode, when Decode comes to the end of the input at a record
\* boundary (it has then read no manifest), it returns an error
C12_StrictNeedsManifest ==
    [][(strictMode /\ dpc \in {"record", "recordV1"} /\ dpos = Len(din)) => DecodeFailed']_vars

\* the destination holds what the record with header h describes
Reconstructed(h) ==
    LET fullPath == JoinClean(destPath, h.FilePath)
    IN /\ fullPath \in DOMAIN dfs
       /\ IF h.FileType = fileTypeDirectory THEN dfs[fullPath].type = "dir"
          ELSE IF h.FileType = fileTypeSymlink
          THEN dfs[fullPath].type = "symlink" /\ dfs[fullPath].target = h.LinkTarget
          ELSE dfs[fullPath].type = "file" /\ Len(dfs[fullPath].data) = h.FileSize

\* Decode returned success and every record of rs is in the destination
AllReconstructed(rs) ==
    /\ dres.err = NoErr
    /\ \A i \in 1..Len(rs.headers) : Reconstructed(rs.headers[i])

\* the stream is nothing but the records rs, each of a known file type
CompleteRecords(rs) ==
    /\ rs.end = Len(din)
    /\ \A i \in 1..Len(rs.headers) :
          rs.headers[i].FileType \in {fileTypeRegular, fileTypeDirectory, fileTypeSymlink}

\* C13: in non-strict mode, when Decode has returned on a stream that consists of
\* complete, valid records (no chunk above the decoder's ceiling) and ends at a
\* record boundary without a manifest, it returned success and the destination
\* holds every record
C13_BestEffortStream ==
    (dpc = "done" /\ ~strictMode /\ dchunk >= chunkSize)
        => (CompleteRecords(Records(din)) => AllReconstructed(Records(din)))

\* the manifest block that makes up the bytes rest fails the validation of
\* readManifest of manifest.go by its CRC, its version or its trailing sentinel
ManifestInvalid(rest) ==
    readManifestCRC(rest).err \in {"manifest CRC mismatch", "unsupported manifest version",
                                   "invalid manifest trailer"}

\* C14: when Decode comes to a manifest block at a record boundary and the block
\* fails that validation, Decode returns an error
C14_ManifestValidated ==
    [][(dpc = "record" /\ Len(din) - dpos >= 4
          /\ SubSeq(din, dpos + 1, dpos + 4) = manifestMagicNumber
          /\ ManifestInvalid(Drop(din, dpos)))
       => DecodeFailed']_vars

\* the paths the record with header h itself denotes in the destination as it
\* was when its block began: its joined path, followed through symlinks or not
OwnPaths(h) ==
    LET fullPath == JoinClean(destPath, h.FilePath)
    IN {Stat(dfs0, fullPath).path, Lstat(dfs0, fullPath).path}

\* the paths the block at which Decode failed denotes: none when the block is a
\* manifest or a header that could not be read
FailedPaths ==
    IF dres.err \in {"Decode: error reading manifest", "Decode: error reading header",
                     "unexpected EOF"}
    THEN {}
    ELSE OwnPaths(dfh)

\* every entry the destination held when the failing block began, the paths S
\* apart, is still there with the same type, mode, bytes and target
Untouched(S) ==
    \A p \in (DOMAIN dfs0) \ S : p \in DOMAIN dfs /\ dfs[p] = dfs0[p]

\* C15 as stated: when Decode has returned an error, every entry reconstructed
\* before the failing block is unchanged
C15_NothingUnwound == DecodeFailed => Untouched({})

\* C15: when Decode has returned an error, every entry reconstructed before the
\* failing block is unchanged, except the entry the failing record itself names
C15_OthersUntouched == DecodeFailed => Untouched(FailedPaths)

\* Decode failed at a later block, with a non-empty regular file of an earlier
\* record at another path in the destination
C15_Witness ==
    /\ DecodeFailed
    /\ \E p \in (DOMAIN dfs0) \ (DOMAIN FreshDest \cup FailedPaths) :
          dfs0[p].type = "file" /\ Len(dfs0[p].data) > 0

\* the decoder stands before a failure that is not one of a chunk header: a header
\* block that readHeader rejects, a header of unknown file type, or a chunk
\* whose payload is cut short
OtherFailure ==
    LET rest == Drop(din, dpos)
    IN \/ /\ dpc = "record"
          /\ Len(rest) >= 4
          /\ SubSeq(rest, 1, 4) # manifestMagicNumber
          /\ \/ readHeader(rest).err # NoErr
             \/ readHeader(rest).fh.FileType
                   \notin {fileTypeRegular, fileTypeDirectory, fileTypeSymlink}
       \/ /\ dpc = "chunk"
          /\ dtotal < dfh.FileSize
          /\ ~ChunkHeaderFails
          /\ Len(rest) - chunkHeaderSize < U64(SubSeq(rest, 5, 12))

\* C16: in non-strict mode a chunk header that does not validate never makes
\* Decode return its error out of hand (a scan for the next chunk magic comes
\* first), while every other failure makes Decode return an error
C16_NonStrictDowngrades ==
    /\ [][(~strictMode /\ ChunkHeaderFails) =>
             ~(DecodeFailed' /\ dpos' <= dpos + chunkHeaderSize)]_vars
    /\ [][(~strictMode /\ OtherFailure) => DecodeFailed']_vars

\* C17: in non-strict mode, when a chunk header does not validate and recovery
\* cannot succeed (the reader cannot seek, or the stream ends before a chunk
\* magic is found), Decode returns an error: it neither returns success nor
\* reads a further record
C17_RecoveryFailureIsFatal ==
    [][(~strictMode /\ ChunkHeaderFails) => DecodeFailed']_vars

\* the stream of C18: the file a.txt of 3 bytes in the chunks 'ab' and 'c', the
\* magic of the second chunk header with one bit flipped, then the record of
\* the file f with the byte 'h'
FlippedStream ==
    CraftedHeaderV1(nameA, fileTypeRegular, 3, <<>>)
       \o CraftedChunkV1(<<97, 98>>) \o FlippedChunkV1(<<99>>)
       \o CraftedHeaderV1(nameF, fileTypeRegular, 1, <<>>) \o CraftedChunkV1(<<104>>)

\* C18: when Decode has returned in non-strict mode on that stream, the damaged
\* file holds the bytes decoded before the corrupted chunk and the later file is
\* reconstructed with its full content
C18_ResumesAfterFlippedMagic ==
    (dpc = "done" /\ ~strictMode /\ din = FlippedStream)
        => /\ destPath \o <<nameA>> \in DOMAIN dfs
           /\ dfs[destPath \o <<nameA>>].data = <<97, 98>>
           /\ destPath \o <<nameF>> \in DOMAIN dfs
           /\ dfs[destPath \o <<nameF>>].data = <<104>>

\* the decoder stands before a chunk header with the right magic, in the chunk
\* loop of a regular file
ChunkHeaderHere ==
    /\ dpc = "chunk"
    /\ dtotal < dfh.FileSize
    /\ Len(din) - dpos >= chunkHeaderSize
    /\ SubSeq(din, dpos + 1, dpos + 4) = chunkMagicNumber

\* the length field and the payload of the chunk the decoder stands before
ChunkLengthHere == U64(SubSeq(din, dpos + 5, dpos + chunkHeaderSize))

ChunkPayloadHere ==
    SubSeq(din, dpos + chunkHeaderSize + 1, dpos + chunkHeaderSize + ChunkLengthHere)

\* C19: a chunk whose length is between 0 and the ceiling is accepted (when its
\* payload is all there, it is appended to the file, a payload of length 0
\* adding nothing, and Decode goes on); a chunk whose length is above the
\* ceiling makes Decode fail without a byte written to the destination
C19_ChunkLengthCeiling ==
    /\ [][(ChunkHeaderHere /\ ChunkLengthHere <= dchunk
              /\ Len(din) - dpos - chunkHeaderSize >= ChunkLengthHere)
          => /\ dres' = NoResult
             /\ dfs' = [dfs EXCEPT ![dfile.path].data = @ \o ChunkPayloadHere]
             /\ dtotal' = dtotal + ChunkLengthHere
             /\ (ChunkLengthHere = 0 => dfs' = dfs)]_vars
    /\ [][(ChunkHeaderHere /\ ChunkLengthHere >= dchunk + 1)
          => (DecodeFailed' /\ dfs' = dfs /\ dfile' = NoFile)]_vars

\* a chunk of length 0 has just been accepted after a chunk of exactly the
\* ceiling's length, and the file holds the two bytes of that chunk
C19_Witness ==
    /\ dpc = "chunk" /\ dres = NoResult /\ dchunk = 2 /\ dtotal = dchunk
    /\ dpos >= 2 * chunkHeaderSize + dchunk
    /\ SubSeq(din, dpos - chunkHeaderSize + 1, dpos) = chunkMagicNumber \o BE64(0)
    /\ SubSeq(din, dpos - 2 * chunkHeaderSize - 1, dpos - chunkHeaderSize - 2)
          = chunkMagicNumber \o BE64(dchunk)
    /\ dfs[dfile.path].data = <<97, 98>>

\* the header at hand is one writeHeader accepts by the claim: a path of at most
\* 255 bytes and, for a symlink, a target of at most 127 bytes
HeaderFits ==
    /\ Len(fh.FilePath) <= 255
    /\ fh.FileType = fileTypeSymlink => Len(fh.LinkTarget) <= 127

\* C20: the call of writeHeader in the callback hands, for a header that fits,
\* one block of exactly 512 bytes to the writer and returns no error; for a
\* path of 256 bytes or more, or a symlink target of 128 bytes or more, it
\* returns an error and no byte is handed to the writer
C20_WriteHeaderLimits ==
    [][(pc = "header" /\ bwErr = NoErr /\ pc' # pc) =>
          IF HeaderFits
          THEN /\ pc' = "write" /\ walkErr' = NoErr
               /\ Len(wq') = 1 /\ Len(wq'[1]) = 512
          ELSE /\ walkErr' \in {"file path too long", "symlink target too long"}
               /\ wq' = wq /\ bw' = bw /\ written' = written /\ pw' = pw]_vars

\* the header of a path of exactly 255 bytes has been accepted
C20_Witness ==
    /\ pc = "write" /\ wcont = "afterHeader" /\ walkErr = NoErr
    /\ Len(fh.FilePath) = 255
    /\ wq = <<writeHeader(fh).bytes>>

\* the step of Decode at hand reads a header (CRC and magic good) whose file type
\* is none of regular, directory and symlink
ReadsUnknownType ==
    /\ dpc = "record"
    /\ Len(din) - dpos >= 4
    /\ SubSeq(din, dpos + 1, dpos + 4) # manifestMagicNumber
    /\ dpos' = dpos + headerSize
    /\ dres'.err # "Decode: error reading header"
    /\ dfh'.FileType \notin {fileTypeRegular, fileTypeDirectory, fileTypeSymlink}

\* C21: a step of Decode that reads a header whose file type is not 0, 1 or 2 ends
\* Decode with an error and creates nothing in the destination: no file, no
\* symlink, no directory and no parent directory of the path of the record.
C21_UnknownTypeCreatesNothing ==
    [][ReadsUnknownType => (DecodeFailed' /\ dfs' = dfs)]_vars

\* the step of Decode at hand reads a manifest whose version is not manifestVersion
ReadsOtherManifestVersion ==
    /\ dpc = "record"
    /\ Len(din) - dpos >= 8
    /\ SubSeq(din, dpos + 1, dpos + 4) = manifestMagicNumber
    /\ U32(SubSeq(din, dpos + 5, dpos + 8)) # manifestVersion

\* the step of Decode at hand reads a header (CRC and magic good) whose version is
\* not headerVersion
ReadsOtherHeaderVersion ==
    /\ dpc = "record"
    /\ Len(din) - dpos >= 4
    /\ SubSeq(din, dpos + 1, dpos + 4) # manifestMagicNumber
    /\ dpos' = dpos + headerSize
    /\ dres'.err # "Decode: error reading header"
    /\ dfh'.Version # headerVersion

\* C22: a step of Decode that reads a file header whose version is not 1, or a
\* manifest whose version is not 1, ends Decode with an error and reconstructs
\* nothing from it.
C22_UnknownVersionRejected ==
    [][(ReadsOtherHeaderVersion \/ ReadsOtherManifestVersion)
          => (DecodeFailed' /\ dfs' = dfs)]_vars

\* C23: when the second call of Decode on a stream returns, the first having
\* returned without error, it returns without error too and the destination is
\* as the first call left it, whatever modes the stream records.
C23_DecodeTwice ==
    (dround = 2 /\ dpc = "done") => (dres.err = NoErr /\ dfs = dfirst)

\* the chunks a file's data makes when every file.Read fills the buffer as far as
\* the data reaches
RECURSIVE FullChunks(_, _)
FullChunks(data, size) ==
    IF Len(data) = 0 THEN <<>>
    ELSE LET n == Min(size, Len(data))
         IN chunkMagicNumber \o BE64(n) \o Take(data, n) \o FullChunks(Drop(data, n), size)

\* the records of the paths qs of the source when no read comes back short
RECURSIVE FullReadRecords(_)
FullReadRecords(qs) ==
    IF Len(qs) = 0 THEN <<>>
    ELSE LET node == src[Head(qs)]
         IN (IF node.type = "other" THEN <<>>
             ELSE writeHeader(HeaderOf(Head(qs), node)).bytes
                  \o (IF node.type = "file" THEN FullChunks(node.data, chunkSize) ELSE <<>>))
            \o FullReadRecords(Tail(qs))

\* the stream of the run of Encode in which no read of a file comes back short
FullReadStream == FullReadRecords(WalkOrder(DOMAIN src))

\* C24: every run of Encode over the same source with the same chunk size that
\* ends without error hands the consumer the same bytes, those of the run whose
\* reads all came back full, whatever the scheduling and whatever the sizes the
\* reads of the files returned.
C24_SameStreamEveryRun ==
    cstate = "EOF" => received = FullReadStream

\* the relative paths of the tree that contain none of the excludes, the root's
\* "." left out
NotExcluded(tree, excludes) ==
    { Rel(q) : q \in { r \in DOMAIN tree :
                         /\ Len(r) > 0
                         /\ \A i \in 1..Len(excludes) :
                               \A k \in 1..Len(r) : ~Contains(Rel(Take(r, k)), excludes[i]) } }

\* the strings of a list
Range(s) == {s[i] : i \in 1..Len(s)}

\* C25: BuildRelativeFileList returns exactly the relative paths under the root
\* that contain no excluded string and have no excluded directory above them;
\* never the root, and whatever the text of the root path is.
C25_ListIsRelativeFilter ==
    (fout # NoCall /\ fout.fn = "BuildRelativeFileList")
        => Range(fout.files) = NotExcluded(fin.tree, fin.excludes)

\* the offset of the first magic number in data at or after offset from, or -1
FirstMagic(magic, data, from) ==
    LET at == {p \in from..(Len(data) - 4) : SubSeq(data, p + 1, p + 4) = magic}
    IN IF at = {} THEN -1 ELSE CHOOSE p \in at : \A r \in at : p <= r

\* C26: when recover returns without error on a seekable stream, the position is
\* at the first byte of the chunk magic it found, so that the next 12 bytes are
\* that magic and the 8-byte length behind it.
C26_RecoverAtMagic ==
    (fout # NoCall /\ fout.fn = "recover" /\ fout.err = NoErr)
        => /\ fout.pos = FirstMagic(fin.magic, fin.data, fin.pos)
           /\ SubSeq(fin.data, fout.pos + 1, fout.pos + chunkHeaderSize)
                 = fin.magic \o BE64(1)

\* the read loop of the file at hand ends at io.EOF: every chunk of the file is out
LastChunkOut == pc = "read" /\ pc' = "walk"

\* C27: when the read loop of a regular file ends, the lengths of the chunks
\* written after its header (file.pos, the bytes read and sent) add up to the
\* file size its header carries, also when the file grew or shrank since it was
\* stat'ed.
C27_ChunksSumToFileSize ==
    [][LastChunkOut => file.pos = fh.FileSize]_vars

\* the chunk loop of the regular file at hand ends without error
RecordFinished == dpc = "chunk" /\ dpc' = "record"

\* C28: when Decode finishes the record of a regular file without error, the
\* destination file holds exactly as many bytes as the file size of the header
\* says: a chunk that would take the payload beyond it is not written.
C28_FileHoldsFileSize ==
    [][RecordFinished => Len(dfs[dfile.path].data) = dfh.FileSize]_vars

\* C29: for every header with version 1, a NUL-free path of 0 to 255 bytes, any
\* size, mode and modification time (negative too), a type among regular,
\* directory and symlink and, for a symlink, a NUL-free target of 0 to 127 bytes,
\* writeHeader writes 512 bytes from which readHeader returns the same header,
\* field by field: no field is laid over another.
C29_HeaderRoundTrip ==
    (fout # NoCall /\ fout.fn = "writeHeader")
        => /\ fout.werr = NoErr /\ Len(fout.bytes) = headerSize
           /\ fout.err = NoErr
           /\ fout.fh = fin.fh

\* the block b is a header as the format lays it out: 512 bytes that start with the
\* header magic, with zero bytes in the reserved area 413..507 and with the CRC32
\* of bytes 0..507 in bytes 508..511
WellFormedHeader(b) ==
    /\ Len(b) = headerSize
    /\ SubSeq(b, 1, 4) = fileHeaderMagicNumber
    /\ SubSeq(b, 413 + 1, 507 + 1) = Zeros(507 - 413 + 1)
    /\ SubSeq(b, 508 + 1, 511 + 1) = ChecksumIEEE(SubSeq(b, 1, 508))

\* C30: every header writeHeader writes is 512 bytes that start with the header
\* magic, have zero bytes at 413..507 and carry at 508..511 the CRC32 of bytes
\* 0..507; readHeader returns an error for every 512-byte block whose bytes
\* 508..511 are not that CRC.
C30_HeaderLayoutAndCRC ==
    /\ (fout # NoCall /\ fout.fn = "writeHeader") => WellFormedHeader(fout.bytes)
    /\ (fout # NoCall /\ fout.fn = "readHeader"
          /\ SubSeq(fin.block, 509, 512) # ChecksumIEEE(SubSeq(fin.block, 1, 508)))
         => fout.err # NoErr

\* readHeader of the codec with the CRC returned for a 512-byte block
ReadHeaderReturned == fout # NoCall /\ fout.fn = "readHeader" /\ fin.codec = "crc"

\* the block handed to readHeader starts with the header magic
BlockMagicGood == SubSeq(fin.block, 1, 4) = fileHeaderMagicNumber

\* its last four bytes are the CRC32 of the 508 before them
BlockCRCGood ==
    SubSeq(fin.block, headerSize - 4 + 1, headerSize)
        = ChecksumIEEE(SubSeq(fin.block, 1, headerSize - 4))

\* C31 as stated: readHeader looks at the magic first: a block with a wrong magic
\* gets the invalid-magic error whether or not its CRC matches, a block with the
\* right magic and a wrong CRC gets the CRC-mismatch error.
C31_MagicBeforeCRC ==
    ReadHeaderReturned
        => /\ ~BlockMagicGood => fout.err = "invalid header magic number"
           /\ (BlockMagicGood /\ ~BlockCRCGood) => fout.err = "header CRC mismatch"

\* C31: readHeader looks at the CRC first: a block whose CRC does not match gets
\* the CRC-mismatch error whether or not its magic is right, a block with a
\* matching CRC and a wrong magic gets the invalid-magic error, and the two
\* errors differ.
C31_CRCBeforeMagic ==
    ReadHeaderReturned
        => /\ ~BlockCRCGood => fout.err = "header CRC mismatch"
           /\ (BlockCRCGood /\ ~BlockMagicGood) => fout.err = "invalid header magic number"
           /\ (BlockCRCGood /\ BlockMagicGood) => fout.err = NoErr

\* readHeader has returned the CRC-mismatch error for a block in which both the
\* magic and the CRC are wrong
C31_Witness ==
    /\ ReadHeaderReturned
    /\ ~BlockMagicGood /\ ~BlockCRCGood
    /\ fout.err = "header CRC mismatch"

\* Decode is about to look for a record in the bytes that are left
AtRecord == dpc = "record"

\* what is left of the stream does not begin with the magic of a manifest
NotManifest ==
    \/ Len(Drop(din, dpos)) < 4
    \/ SubSeq(Drop(din, dpos), 1, 4) # manifestMagicNumber

\* C32: where Decode expects the header of a record and the stream has between 1
\* and 511 more bytes that are not a manifest, Decode returns an error; only a
\* stream with nothing left there ends the decoding without error.
C32_ShortHeaderIsError ==
    [][(AtRecord /\ Len(Drop(din, dpos)) \in 1..(headerSize - 1) /\ NotManifest)
          => (dpc' = "done" /\ dres'.err # NoErr)]_vars

\* the four bytes Decode peeks where it looks for a record are the manifest magic
AtManifest ==
    /\ AtRecord /\ Len(Drop(din, dpos)) >= 4
    /\ SubSeq(Drop(din, dpos), 1, 4) = manifestMagicNumber

\* the bytes rest begin with a manifest that readManifest of manifest.go accepts:
\* magic, version, entries, trailing sentinel and the CRC32 of all of these
ManifestValid(rest) ==
    LET m == readManifest(rest)
    IN /\ m.err = NoErr
       /\ Len(rest) >= m.n + 4
       /\ readManifestCRC(Take(rest, m.n + 4)).err = NoErr

\* C33: when the four bytes peeked at a record boundary are the manifest magic,
\* Decode consumes the manifest and ends: it returns success exactly when the
\* manifest is valid, and from there on it parses no header or chunk and creates
\* nothing in the destination, whatever bytes follow.
C33_ManifestEndsDecode ==
    [][AtManifest
         => /\ dpc' = "done"
            /\ dres'.err = NoErr <=> ManifestValid(Drop(din, dpos))
            /\ dfs' = dfs]_vars

\* writeManifest and readManifest of manifest.go have returned
ManifestWritten == fout # NoCall /\ fout.fn = "writeManifest"

\* 19 bytes and the path for each entry
RECURSIVE ManifestEntriesSize(_)
ManifestEntriesSize(entries) ==
    IF Len(entries) = 0 THEN 0
    ELSE 19 + Len(Head(entries).FilePath) + ManifestEntriesSize(Tail(entries))

\* C34: for every table of entries with paths shorter than 65536 bytes,
\* readManifest on the bytes writeManifest wrote returns the same entries in the
\* same order; the block is 24 bytes and 19 + the path length for each entry, it
\* begins and, before the CRC, ends with the manifest magic, and its last four
\* bytes are the CRC32 of all bytes before them.
C34_ManifestRoundTrip ==
    ManifestWritten
        => /\ fout.err = NoErr
           /\ fout.entries = fin.entries
           /\ Len(fout.bytes) = 24 + ManifestEntriesSize(fin.entries)
           /\ SubSeq(fout.bytes, 1, 4) = manifestMagicNumber
           /\ SubSeq(fout.bytes, Len(fout.bytes) - 7, Len(fout.bytes) - 4) = manifestMagicNumber
           /\ SubSeq(fout.bytes, Len(fout.bytes) - 3, Len(fout.bytes))
                 = ChecksumIEEE(SubSeq(fout.bytes, 1, Len(fout.bytes) - 4))

\* a table of two entries, one with a path of 300 bytes and one whose path
\* spells the manifest magic, has been written and read back
C34_Witness ==
    /\ ManifestWritten
    /\ Len(fin.entries) = 2
    /\ Len(fin.entries[1].FilePath) = LongPath
    /\ fin.entries[2].FilePath = manifestMagicNumber
    /\ fout.entries = fin.entries

\* Decode reads the header of a symlink record
ReadsSymlink ==
    /\ dpc = "record"
    /\ Len(din) - dpos >= 4
    /\ SubSeq(din, dpos + 1, dpos + 4) # manifestMagicNumber
    /\ dpos' = dpos + headerSize
    /\ dres'.err # "Decode: error reading header"
    /\ dfh'.FileType = fileTypeSymlink

\* in the file system fs the path of header h, taken without following a final
\* link, is a symbolic link to the link target of h
IsLinkOf(fs, h) ==
    LET r == Lstat(fs, JoinClean(destPath, h.FilePath))
    IN /\ r.err = NoErr /\ r.exists
       /\ fs[r.path].type = "symlink"
       /\ fs[r.path].target = h.LinkTarget

\* C35: Decode processes a symlink record without error whatever was at its path
\* before (nothing, a regular file, another symlink, an empty or a non-empty
\* directory), and afterwards the path is a symlink to exactly the link target
\* of the header, which is neither followed nor checked.
C35_SymlinkReplacesAny ==
    [][ReadsSymlink => (~DecodeFailed' /\ IsLinkOf(dfs', dfh'))]_vars

\* C36: the producer has at most one source file open and the decoder at most
\* one destination file: a file is opened only when none is open, it is closed
\* when the next record's header is about to be written or read, and it is
\* closed when the callback or Decode has returned, with an error or without.
C36_OneFileOpen ==
    /\ [][(file # NoFile /\ file' # NoFile) => file'.path = file.path]_vars
    /\ [][(dfile # NoFile /\ dfile' # NoFile) => dfile'.path = dfile.path]_vars
    /\ [](pc \in {"walk", "header"} => file = NoFile)
    /\ [](dpc = "record" => dfile = NoFile)
    /\ [](walkErr # NoErr => file = NoFile)
    /\ [](dpc = "done" => dfile = NoFile)

\* Decode has returned an error out of the chunk loop of a regular file that is
\* not the first record of the stream, the producer has written the records of
\* two entries and more, a file with content among them, and no file is open on
\* either side
C36_Witness ==
    /\ dpc = "done" /\ DecodeFailed
    /\ dfile = NoFile /\ file = NoFile
    /\ dfh # NoHeader /\ dfh.FileType = fileTypeRegular
    /\ dpos > headerSize + headerSize
    /\ Len(manifestEntries) >= 2
    /\ \E i \in 1..Len(manifestEntries) :
          manifestEntries[i].FileType = fileTypeRegular /\ manifestEntries[i].FileSize > 0

\* C37: when the consumer keeps reading the stream until it gets the end of the
\* stream or an error, never closing the read end before, the producer eventually
\* closes the write end of the pipe and ends, and the consumer eventually gets
\* the end of the stream or an error: the two do not block each other for ever.
C37_ProducerTerminates ==
    ([]~rclosed) => /\ <>(pc = "done" /\ werr # "none")
                    /\ <>(cstate \notin {"reading", "closed"})

\* the producer has ended and the consumer has read, to the end of the stream, a
\* stream that went through the pipe in more than one write
C37_Witness ==
    /\ pc = "done" /\ werr = "EOF"
    /\ ~rclosed /\ cstate = "EOF"
    /\ Len(received) > defaultBufSize
    /\ received = written

\* recover has returned after a hit: it found the magic, whether or not the
\* seek back succeeded
RecoverHit == fout # NoCall /\ fout.fn = "recover" /\ fout.err # "EOF"

\* the bytes recover had consumed from the stream when it hit: the seek back, when
\* it succeeds, takes chunkHeaderSize - 4 of them back
RecoverConsumed ==
    IF fout.err = NoErr THEN fout.pos + (chunkHeaderSize - 4) - fin.pos
    ELSE fout.pos - fin.pos

\* C38: recover reports a hit only when the last four bytes it has consumed from
\* the stream are the magic: the bytes its window is seeded with never make a
\* match together with 1, 2 or 3 bytes of the stream.
C38_HitOnStreamBytes ==
    RecoverHit
        => /\ RecoverConsumed >= 4
           /\ SubSeq(fin.data, fin.pos + RecoverConsumed - 3, fin.pos + RecoverConsumed)
                 = fin.magic

\* recover has hit on a stream that begins with the last three bytes of the magic
\* and has the whole magic further on
C38_Witness ==
    /\ RecoverHit
    /\ fin.pos = 0
    /\ SubSeq(fin.data, 1, 3) = Drop(fin.magic, 1)
    /\ RecoverConsumed = 8

\* the path p of the file system is the destination directory or lies below it
InsideDest(p) == Len(p) >= Len(destPath) /\ Take(p, Len(destPath)) = destPath

\* every entry outside the destination is in fs2 what it is in fs1
OutsideSame(fs1, fs2) ==
    \A p \in (DOMAIN fs1) \cup (DOMAIN fs2) :
       ~InsideDest(p) => (p \in DOMAIN fs1 /\ p \in DOMAIN fs2 /\ fs1[p] = fs2[p])

\* the bytes Decode has read so far are complete records, each with a path that
\* lies lexically inside the destination
PathsInsideSoFar ==
    LET rs == Records(Take(din, dpos))
    IN /\ rs.end = dpos
       /\ \A i \in 1..Len(rs.headers) : ~UnsafePath(rs.headers[i].FilePath)

\* the step of Decode at hand reads a header (CRC and magic good) with a path that
\* lies lexically inside the destination
ReadsSafeHeader ==
    /\ dpc = "record"
    /\ Len(din) - dpos >= 4
    /\ SubSeq(din, dpos + 1, dpos + 4) # manifestMagicNumber
    /\ dpos' = dpos + headerSize
    /\ dres'.err # "Decode: error reading header"
    /\ ~UnsafePath(dfh'.FilePath)

\* C39: when every record of the stream so far has a path that lies lexically
\* inside the destination, the record Decode reads next, with such a path too,
\* creates and overwrites nothing outside the destination, also when its path
\* goes through a symlink an earlier record made point outside.
C39_NoWriteThroughLink ==
    [][(PathsInsideSoFar /\ ReadsSafeHeader) => OutsideSame(dfs, dfs')]_vars

\* the chunk loop is left because the payload seen has reached the file size: the
\* test of the loop, no iteration
ChunkLoopExit ==
    /\ dpc \in {"chunk", "chunkV1"} /\ dtotal >= dfh.FileSize
    /\ dpc' \in {"record", "recordV1"}

\* C40: Decode comes to its end on every finite stream, in strict and in
\* non-strict mode: every iteration of the record loop and of the chunk loop (a
\* chunk of length zero too), the scan of recover included, consumes at least
\* one byte of the stream or makes Decode return, so no bytes are read again
\* for ever.
C40_DecodeTerminates ==
    /\ [][(dpc' # "done" /\ ~ChunkLoopExit) => dpos' > dpos]_vars
    /\ <>(dpc = "done")

\* Decode has returned success at the end of a stream in which a chunk of length
\* zero stands between two chunks of the file a.txt
C40_Witness ==
    /\ dpc = "done" /\ dres.err = NoErr
    /\ dpos = Len(din)
    /\ dfh # NoHeader /\ dfh.FilePath = nameA /\ dfh.FileSize = 3
    /\ Len(din) >= headerSize + 3 * chunkHeaderSize + 3
    /\ SubSeq(din, Len(din) - 2 * chunkHeaderSize, Len(din) - chunkHeaderSize - 1)
          = chunkMagicNumber \o BE64(0)

=============================================================================
